---- MODULE Spec2Model ----
(***************************************************************************)
(* BrandGuard: brand-compliance audit, one-click fixes and batch undo of   *)
(* an Adobe Express add-on.                                                *)
(*                                                                         *)
(* Strings are sequences of one-character strings, so that trimming, case  *)
(* folding, prefix tests and hex parsing are computed as the code computes *)
(* them.  null / undefined / "" are the empty sequence: every place where  *)
(* the code tests such a value tests its truthiness.                       *)
(*                                                                         *)
(* Contrast arithmetic is fixed point: linearised channels are scaled by   *)
(* 10^4, luminances by 10^6, ratios and thresholds by 10^3.                *)
(***************************************************************************)
EXTENDS Integers, Sequences, FiniteSets, TLC

Null == <<>>

(***************************************************************************)
(* Characters and strings                                                  *)
(***************************************************************************)
LowerChars == <<"a","b","c","d","e","f","g","h","i","j","k","l","m",
                "n","o","p","q","r","s","t","u","v","w","x","y","z">>

UpperChars == <<"A","B","C","D","E","F","G","H","I","J","K","L","M",
                "N","O","P","Q","R","S","T","U","V","W","X","Y","Z">>

HexChars == <<"0","1","2","3","4","5","6","7","8","9","A","B","C","D","E","F">>

\* the characters that occur in the model's strings
Chars ==
    {LowerChars[i] : i \in 1..26} \cup {UpperChars[i] : i \in 1..26}
      \cup {HexChars[i] : i \in 1..16} \cup {"#", " ", "-", "_"}

UpperOf ==
    [c \in Chars |->
        IF \E i \in 1..26 : LowerChars[i] = c
        THEN UpperChars[CHOOSE i \in 1..26 : LowerChars[i] = c]
        ELSE c]

LowerOf ==
    [c \in Chars |->
        IF \E i \in 1..26 : UpperChars[i] = c
        THEN LowerChars[CHOOSE i \in 1..26 : UpperChars[i] = c]
        ELSE c]

ToUpperChar(c) == UpperOf[c]

ToLowerChar(c) == LowerOf[c]

toUpperCase(s) == [i \in 1..Len(s) |-> ToUpperChar(s[i])]

toLowerCase(s) == [i \in 1..Len(s) |-> ToLowerChar(s[i])]

RECURSIVE trimStart(_)
trimStart(s) == IF s # <<>> /\ s[1] = " " THEN trimStart(Tail(s)) ELSE s

RECURSIVE trimEnd(_)
trimEnd(s) ==
    IF s # <<>> /\ s[Len(s)] = " " THEN trimEnd(SubSeq(s, 1, Len(s) - 1)) ELSE s

trim(s) == trimEnd(trimStart(s))

startsWith(s, p) == Len(p) <= Len(s) /\ SubSeq(s, 1, Len(p)) = p

\* hex.replace(/^#/, '')
StripHash(s) == IF s # <<>> /\ s[1] = "#" THEN Tail(s) ELSE s

\* the value of a hex digit of either case; -1 for any other character
HexValOf ==
    [c \in Chars |->
        IF \E d \in 1..16 : HexChars[d] = UpperOf[c]
        THEN (CHOOSE d \in 1..16 : HexChars[d] = UpperOf[c]) - 1
        ELSE -1]

\* /^[0-9A-Fa-f]+$/.test(s)
IsHexString(s) ==
    /\ s # <<>>
    /\ \A i \in 1..Len(s) : HexValOf[s[i]] >= 0

HexVal(c) == HexValOf[c]

\* parseInt(s, 16) of a string of hex digits
RECURSIVE parseInt16(_)
parseInt16(s) ==
    IF s = <<>> THEN 0
    ELSE 16 * parseInt16(SubSeq(s, 1, Len(s) - 1)) + HexVal(s[Len(s)])

\* Math.round(v * 255).toString(16).padStart(2, "0").toUpperCase()
HexByte(v) == <<HexChars[(v \div 16) + 1], HexChars[(v % 16) + 1]>>

(***************************************************************************)
(* ui/utils/colors.ts                                                      *)
(***************************************************************************)
\* toHex6 if it kept the digits in the case they were written in
toHex6AsWritten(hex) ==
    IF hex = Null THEN Null
    ELSE LET clean == StripHash(trim(hex)) IN
         IF ~IsHexString(clean) THEN Null
         ELSE IF Len(clean) = 6 THEN <<"#">> \o clean
         ELSE IF Len(clean) = 8
              THEN IF toUpperCase(SubSeq(clean, 1, 6)) = <<"0","0","0","0","0","0">>
                   THEN <<"#">> \o SubSeq(clean, 3, 8)
                   ELSE <<"#">> \o SubSeq(clean, 1, 6)
         ELSE Null

toHex6(hex) ==
    IF hex = Null THEN Null
    ELSE LET clean == StripHash(trim(hex)) IN
         IF ~IsHexString(clean) THEN Null
         ELSE IF Len(clean) = 6 THEN <<"#">> \o toUpperCase(clean)
         ELSE IF Len(clean) = 8
              THEN LET firstSix  == SubSeq(clean, 1, 6)
                       middleSix == SubSeq(clean, 3, 8)
                   IN  IF toUpperCase(firstSix) = <<"0","0","0","0","0","0">>
                       THEN <<"#">> \o toUpperCase(middleSix)
                       ELSE <<"#">> \o toUpperCase(firstSix)
         ELSE Null

\* (bigint >> 16) & 255, (bigint >> 8) & 255, bigint & 255
hexToRgb(hex) ==
    LET bigint == parseInt16(StripHash(hex))
    IN  [r |-> (bigint \div 65536) % 256,
         g |-> (bigint \div 256) % 256,
         b |-> bigint % 256]

\* toLinear(value) * 10^4, value = 0..255 at index value + 1
ToLinear == <<
    0, 3, 6, 9, 12, 15, 18, 21, 24, 27, 30, 33, 37, 40, 44, 48,
    52, 56, 60, 65, 70, 75, 80, 86, 91, 97, 103, 110, 116, 123, 130, 137,
    144, 152, 160, 168, 176, 185, 194, 203, 212, 222, 232, 242, 252, 262, 273, 284,
    296, 307, 319, 331, 343, 356, 369, 382, 395, 409, 423, 437, 452, 467, 482, 497,
    513, 529, 545, 561, 578, 595, 612, 630, 648, 666, 685, 704, 723, 742, 762, 782,
    802, 823, 844, 865, 887, 908, 931, 953, 976, 999, 1022, 1046, 1070, 1095, 1119, 1144,
    1170, 1195, 1221, 1248, 1274, 1301, 1329, 1356, 1384, 1413, 1441, 1470, 1500, 1529, 1559, 1590,
    1620, 1651, 1683, 1714, 1746, 1779, 1812, 1845, 1878, 1912, 1946, 1981, 2016, 2051, 2086, 2122,
    2159, 2195, 2232, 2270, 2307, 2346, 2384, 2423, 2462, 2502, 2542, 2582, 2623, 2664, 2705, 2747,
    2789, 2831, 2874, 2918, 2961, 3005, 3050, 3095, 3140, 3185, 3231, 3278, 3325, 3372, 3419, 3467,
    3515, 3564, 3613, 3663, 3712, 3763, 3813, 3864, 3916, 3968, 4020, 4072, 4125, 4179, 4233, 4287,
    4342, 4397, 4452, 4508, 4564, 4621, 4678, 4735, 4793, 4851, 4910, 4969, 5029, 5089, 5149, 5210,
    5271, 5333, 5395, 5457, 5520, 5583, 5647, 5711, 5776, 5841, 5906, 5972, 6038, 6105, 6172, 6240,
    6308, 6376, 6445, 6514, 6584, 6654, 6724, 6795, 6867, 6939, 7011, 7084, 7157, 7231, 7305, 7379,
    7454, 7529, 7605, 7682, 7758, 7835, 7913, 7991, 8070, 8148, 8228, 8308, 8388, 8469, 8550, 8632,
    8714, 8796, 8879, 8963, 9047, 9131, 9216, 9301, 9387, 9473, 9560, 9647, 9734, 9823, 9911, 10000
>>

\* luminance * 10^6
getLuminance(rgb) ==
    (2126 * ToLinear[rgb.r + 1] + 7152 * ToLinear[rgb.g + 1]
        + 722 * ToLinear[rgb.b + 1]) \div 100

getRelativeLuminance(hex) == getLuminance(hexToRgb(hex))

Max(a, b) == IF a >= b THEN a ELSE b

Min(a, b) == IF a <= b THEN a ELSE b

\* options?: { largeText?, nonText?, reportAAA? }; an absent option is FALSE
Options(largeText, reportAAA) ==
    [largeText |-> largeText, nonText |-> FALSE, reportAAA |-> reportAAA]

\* the result object of calculateContrastRatio
ContrastResult(contrastRatio, isLarge, isNonText, reportAAA) ==
    [ratio       |-> contrastRatio,
     passesAA    |-> contrastRatio >= (IF isLarge \/ isNonText THEN 3000 ELSE 4500),
     requiredAA  |-> IF isLarge \/ isNonText THEN 3000 ELSE 4500,
     hasAAA      |-> reportAAA,
     passesAAA   |-> reportAAA /\ contrastRatio >= (IF isLarge THEN 4500 ELSE 7000),
     requiredAAA |-> IF ~reportAAA THEN 0 ELSE IF isLarge THEN 4500 ELSE 7000]

\* (max + 0.05) / (min + 0.05), * 10^3
ContrastOf(luminance1, luminance2) ==
    ((Max(luminance1, luminance2) + 50000) * 1000)
        \div (Min(luminance1, luminance2) + 50000)

calculateContrastRatio(hex1, hex2, options) ==
    LET luminance1    == getRelativeLuminance(hex1)
        luminance2    == getRelativeLuminance(hex2)
        contrastRatio == ContrastOf(luminance1, luminance2)
    IN  ContrastResult(contrastRatio, options.largeText, options.nonText,
                       options.reportAAA)

\* dr*dr + dg*dg + db*db; Math.sqrt is monotone and only the order is used
Distance2(a, b) ==
    (a.r - b.r) * (a.r - b.r) + (a.g - b.g) * (a.g - b.g)
        + (a.b - b.b) * (a.b - b.b)

colorDistance(hex1, hex2) ==
    LET a == hexToRgb(hex1)
        b == hexToRgb(hex2)
    IN  Distance2(a, b)

(***************************************************************************)
(* Brand kits (hooks/useBrandKit.ts) and brandConfig.ts                    *)
(***************************************************************************)
Arial   == <<"A","r","i","a","l">>

Georgia == <<"G","e","o","r","g","i","a">>

Verdana == <<"V","e","r","d","a","n","a">>

ArialBold == <<"A","r","i","a","l","-","B","o","l","d">>

\* the kit every getter falls back to while none is loaded
DefaultKit ==
    [name |-> "Enterprise Pro",
     allowedColors |-> << <<"#","2","3","2","D","4","B">>,
                          <<"#","E","5","7","2","0","0">>,
                          <<"#","F","F","F","F","F","F">>,
                          <<"#","D","A","D","A","D","A">>,
                          <<"#","E","F","3","F","6","B">>,
                          <<"#","6","2","B","B","4","6">> >>,
     allowedFonts |-> <<Arial, Georgia>>,
     accessibility |-> [minContrast |-> 4500]]

\* kits a user uploaded; they are stored as uploadBrandKit normalises them
SoftKit ==
    [name |-> "Soft",
     allowedColors |-> << <<"#","F","F","F","F","F","F">>,
                          <<"#","D","A","D","A","D","A">> >>,
     allowedFonts |-> <<Arial>>,
     accessibility |-> [minContrast |-> 4500]]

normalizeFontName(name) ==
    IF name = Null THEN Null ELSE toLowerCase(trim(name))

\* fontsToCheck is getBrandKit().allowedFonts: no caller passes allowedFonts
isFontAllowed(fontName, fontsToCheck) ==
    IF fontName = Null THEN TRUE
    ELSE LET normalized == normalizeFontName(fontName) IN
         IF normalized = Null THEN TRUE
         ELSE \E i \in 1..Len(fontsToCheck) :
                LET allowedNormalized == normalizeFontName(fontsToCheck[i]) IN
                /\ allowedNormalized # Null
                /\ \/ normalized = allowedNormalized
                   \/ startsWith(normalized, allowedNormalized \o <<" ">>)
                   \/ startsWith(normalized, allowedNormalized \o <<"-">>)
                   \/ startsWith(normalized, allowedNormalized \o <<"_">>)

\* normalize() local to findNearestBrandColor
NearestNormalize(hex) ==
    IF hex = Null THEN Null
    ELSE LET s0 == StripHash(trim(hex))
             s  == IF Len(s0) = 3
                   THEN <<s0[1], s0[1], s0[2], s0[2], s0[3], s0[3]>>
                   ELSE s0
         IN  IF Len(s) = 6 \/ Len(s) = 8
             THEN toUpperCase(SubSeq(s, 1, 6))
             ELSE Null

\* hexToRgb() local to findNearestBrandColor, of a normalized colour
NearestParse(n) ==
    IF n = Null THEN Null
    ELSE [r |-> parseInt16(SubSeq(n, 1, 2)),
          g |-> parseInt16(SubSeq(n, 3, 4)),
          b |-> parseInt16(SubSeq(n, 5, 6))]

\* hexToRgb(normalize(hex)); Null when normalize fails
NearestRgb(hex6) ==
    LET n == NearestNormalize(hex6) IN NearestParse(n)

RECURSIVE NearestLoopLast(_, _, _, _, _)
RECURSIVE NearestLoop(_, _, _, _, _)
\* the loop it would be if an equally near colour replaced the best so far
NearestLoopLast(colors, i, target, best, bestDist) ==
    IF i > Len(colors) THEN best
    ELSE LET c == NearestRgb(colors[i]) IN
         IF c = Null THEN NearestLoopLast(colors, i + 1, target, best, bestDist)
         ELSE LET dr == c.r - target.r
                  dg == c.g - target.g
                  db == c.b - target.b
                  dist2 == dr * dr + dg * dg + db * db
              IN  IF bestDist < 0 \/ dist2 <= bestDist
                  THEN NearestLoopLast(colors, i + 1, target, colors[i], dist2)
                  ELSE NearestLoopLast(colors, i + 1, target, best, bestDist)

\* the loop of findNearestBrandColor from candidate i on; bestDist < 0 is +Infinity
NearestLoop(colors, i, target, best, bestDist) ==
    IF i > Len(colors) THEN best
    ELSE LET c == NearestRgb(colors[i]) IN
         IF c = Null THEN NearestLoop(colors, i + 1, target, best, bestDist)
         ELSE LET dr == c.r - target.r
                  dg == c.g - target.g
                  db == c.b - target.b
                  dist2 == dr * dr + dg * dg + db * db
              IN  IF bestDist < 0 \/ dist2 < bestDist
                  THEN NearestLoop(colors, i + 1, target, colors[i], dist2)
                  ELSE NearestLoop(colors, i + 1, target, best, bestDist)

\* kit is getBrandKit(), the manager's kit at the time of the call
findNearestBrandColor(inputHex, kit) ==
    IF inputHex = Null \/ Len(kit.allowedColors) = 0 THEN Null
    ELSE LET target == NearestRgb(inputHex) IN
         IF target = Null THEN Null
         ELSE NearestLoop(kit.allowedColors, 1, target, Null, -1)

(***************************************************************************)
(* ui/components/App.tsx: classification of one scanned element.           *)
(* brandKit is the kit of the render the callback closes over; globalKit   *)
(* is getBrandKit() at the time of the call, read by isFontAllowed and     *)
(* findNearestBrandColor.                                                  *)
(***************************************************************************)
\* brandKit.allowedColors.some(brandHex => brandHex.toUpperCase() === currentHex.toUpperCase())
IsBrandCompliant(currentHex, brandKit) ==
    \E i \in 1..Len(brandKit.allowedColors) :
        toUpperCase(brandKit.allowedColors[i]) = toUpperCase(currentHex)

\* isAAA ? !!contrastResult.passesAAA : !!contrastResult.passesAA
IsContrastCompliant(currentHex, bgHex, isTextElement, brandKit) ==
    LET isAAA == brandKit.accessibility.minContrast >= 7000
        contrastResult ==
            calculateContrastRatio(currentHex, bgHex, Options(isTextElement, isAAA))
    IN  IF isAAA THEN contrastResult.passesAAA ELSE contrastResult.passesAA

\* isTextElement ? (isAAA ? 4.5 : 3.0) : minContrast
RequiredContrast(isTextElement, brandKit) ==
    LET minContrast == brandKit.accessibility.minContrast IN
    IF isTextElement
    THEN (IF minContrast >= 7000 THEN 4500 ELSE 3000)
    ELSE minContrast

hasBetterBrandColor(currentHex, bgHex, isTextElement, brandKit) ==
    LET requiredContrast == RequiredContrast(isTextElement, brandKit)
        isAAA == brandKit.accessibility.minContrast >= 7000
        currentRatio ==
            calculateContrastRatio(currentHex, bgHex,
                                   Options(isTextElement, isAAA)).ratio
    IN  \E i \in 1..Len(brandKit.allowedColors) :
            LET normalizedBrand == toHex6(brandKit.allowedColors[i]) IN
            /\ normalizedBrand # Null
            /\ toUpperCase(normalizedBrand) # toUpperCase(currentHex)
            /\ LET otherRatio ==
                       calculateContrastRatio(normalizedBrand, bgHex,
                                              Options(isTextElement, FALSE)).ratio
               IN  otherRatio >= requiredContrast \/ otherRatio > currentRatio + 500

\* check 1 of the audit filter
AuditColorViolation(el, brandKit) ==
    /\ el.fillColor # Null
    /\ toHex6(el.fillColor) # Null
    /\ ~IsBrandCompliant(toHex6(el.fillColor), brandKit)

\* check 2 of the audit filter
AuditContrastViolation(el, brandKit) ==
    /\ el.fillColor # Null
    /\ toHex6(el.fillColor) # Null
    /\ el.containerFillColor # Null
    /\ toHex6(el.containerFillColor) # Null
    /\ LET currentHex    == toHex6(el.fillColor)
           bgHex         == toHex6(el.containerFillColor)
           isTextElement == el.type = "Text"
       IN  /\ ~IsContrastCompliant(currentHex, bgHex, isTextElement, brandKit)
           /\ IF IsBrandCompliant(currentHex, brandKit)
              THEN hasBetterBrandColor(currentHex, bgHex, isTextElement, brandKit)
              ELSE TRUE

\* check 3 of the audit filter
AuditFontViolation(el, globalKit) ==
    el.fontName # Null /\ ~isFontAllowed(el.fontName, globalKit.allowedFonts)

hasSomeViolation(el, brandKit, globalKit) ==
    \/ AuditColorViolation(el, brandKit)
    \/ AuditContrastViolation(el, brandKit)
    \/ AuditFontViolation(el, globalKit)

\* results.filter(...)
badElements(results, brandKit, globalKit) ==
    LET Bad(el) == hasSomeViolation(el, brandKit, globalKit)
    IN  SelectSeq(results, Bad)

\* the loop over brandKit.allowedColors that keeps the highest ratio, from
\* colour i on
RECURSIVE BestBrandLoop(_, _, _, _, _)
BestBrandLoop(colors, i, bgHex, isTextElement, best) ==
    IF i > Len(colors) THEN best
    ELSE LET normalizedBrand == toHex6(colors[i]) IN
         IF normalizedBrand = Null
         THEN BestBrandLoop(colors, i + 1, bgHex, isTextElement, best)
         ELSE LET ratio == calculateContrastRatio(normalizedBrand, bgHex,
                               Options(isTextElement, FALSE)).ratio
              IN  BestBrandLoop(colors, i + 1, bgHex, isTextElement,
                      IF ratio > best.bestRatio
                      THEN [bestRatio |-> ratio, bestColor |-> colors[i]]
                      ELSE best)

\* the warnings one element adds to unfixableContrastWarnings: none or one
UnfixableOf(el, brandKit) ==
    IF el.fillColor = Null \/ el.containerFillColor = Null THEN <<>>
    ELSE LET hexColor == toHex6(el.fillColor)
             bgHex    == toHex6(el.containerFillColor)
         IN  IF hexColor = Null \/ bgHex = Null THEN <<>>
             ELSE LET currentHex    == hexColor
                      isTextElement == el.type = "Text"
                      isAAA         == brandKit.accessibility.minContrast >= 7000
                      requiredRatio == RequiredContrast(isTextElement, brandKit)
                      currentContrastResult ==
                          calculateContrastRatio(currentHex, bgHex,
                                                 Options(isTextElement, isAAA))
                      best ==
                          BestBrandLoop(brandKit.allowedColors, 1, bgHex, isTextElement,
                                        [bestRatio |-> 0,
                                         bestColor |-> brandKit.allowedColors[1]])
                  IN  IF /\ IsBrandCompliant(currentHex, brandKit)
                         /\ ~IsContrastCompliant(currentHex, bgHex, isTextElement,
                                                 brandKit)
                         /\ best.bestRatio < requiredRatio
                      THEN << [element           |-> el,
                               currentRatio      |-> currentContrastResult.ratio,
                               bestPossibleRatio |-> best.bestRatio,
                               bestBrandColor    |-> best.bestColor,
                               requiredRatio     |-> requiredRatio,
                               wcagLevel         |-> IF isAAA THEN "AAA" ELSE "AA",
                               isCurrentBest     |->
                                   toHex6(best.bestColor) # Null
                                     /\ toUpperCase(toHex6(best.bestColor))
                                          = toUpperCase(currentHex)] >>
                      ELSE <<>>

\* for (const el of results) { ... unfixableContrastWarnings.push(...) }
RECURSIVE unfixableContrastWarnings(_, _, _)
unfixableContrastWarnings(results, i, brandKit) ==
    IF i > Len(results) THEN <<>>
    ELSE UnfixableOf(results[i], brandKit)
           \o unfixableContrastWarnings(results, i + 1, brandKit)

(***************************************************************************)
(* violationCards: the broken rules shown for a listed element             *)
(***************************************************************************)
CardColorViolation(el, brandKit) ==
    LET hex == toHex6(el.fillColor)
    IN  ~(hex # Null /\ IsBrandCompliant(hex, brandKit))

CardContrastViolation(el, brandKit) ==
    LET hex == toHex6(el.fillColor) IN
    /\ el.containerFillColor # Null
    /\ hex # Null
    /\ toHex6(el.containerFillColor) # Null
    /\ ~IsContrastCompliant(hex, toHex6(el.containerFillColor),
                            el.type = "Text", brandKit)

CardFontViolation(el, globalKit) ==
    el.fontName # Null /\ ~isFontAllowed(el.fontName, globalKit.allowedFonts)

\* the reasons of a card, as the set of rule kinds
CardReasons(el, brandKit, globalKit) ==
    (IF CardColorViolation(el, brandKit) THEN {"color"} ELSE {})
      \cup (IF CardContrastViolation(el, brandKit) THEN {"contrast"} ELSE {})
      \cup (IF CardFontViolation(el, globalKit) THEN {"font"} ELSE {})

primaryViolationType(el, brandKit, globalKit) ==
    IF CardContrastViolation(el, brandKit) THEN "contrast"
    ELSE IF CardFontViolation(el, globalKit) THEN "font"
    ELSE "color"

(***************************************************************************)
(* determineSuggestedColor                                                 *)
(***************************************************************************)
\* safeList.reduce((best, color) => currDist < bestDist ? color : best)
RECURSIVE ReduceNearest(_, _, _, _)
ReduceNearest(list, i, best, currentHex) ==
    IF i > Len(list) THEN best
    ELSE ReduceNearest(list, i + 1,
            IF colorDistance(list[i], currentHex) < colorDistance(best, currentHex)
            THEN list[i] ELSE best,
            currentHex)

\* fallbackList.reduce((best, color) => currRatio > bestRatio ? color : best)
RECURSIVE ReduceHighest(_, _, _, _, _)
ReduceHighest(list, i, best, bgHex, isTextElement) ==
    IF i > Len(list) THEN best
    ELSE LET bestNormalized  == toHex6(best)
             colorNormalized == toHex6(list[i])
             next ==
                 IF bestNormalized = Null \/ colorNormalized = Null THEN best
                 ELSE IF calculateContrastRatio(colorNormalized, bgHex,
                              Options(isTextElement, FALSE)).ratio
                          > calculateContrastRatio(bestNormalized, bgHex,
                              Options(isTextElement, FALSE)).ratio
                      THEN list[i] ELSE best
         IN  ReduceHighest(list, i + 1, next, bgHex, isTextElement)

\* the three return statements after the contrast check
SuggestFrom(safeList, fallbackList, currentHex, bgHex, isTextElement, brandKit) ==
    IF Len(safeList) > 0
    THEN ReduceNearest(safeList, 2, safeList[1], currentHex)
    ELSE IF Len(fallbackList) > 0
    THEN ReduceHighest(fallbackList, 2, fallbackList[1], bgHex, isTextElement)
    ELSE brandKit.allowedColors[1]

\* findNearestBrandColor(currentHex) || brandKit.allowedColors[0]
OrFirstColor(nearest, brandKit) ==
    IF nearest # Null THEN nearest ELSE brandKit.allowedColors[1]

\* determineSuggestedColor with currentHex and bgHex computed
SuggestFor(el, currentHex, bgHex, isTextElement, brandKit, globalKit) ==
    LET Safe(color) ==
            /\ toHex6(color) # Null
            /\ toUpperCase(toHex6(color)) # toUpperCase(currentHex)
            /\ calculateContrastRatio(toHex6(color), bgHex,
                   Options(isTextElement, FALSE)).ratio
                 >= RequiredContrast(isTextElement, brandKit)
        Other(color) ==
            toHex6(color) # Null /\ toUpperCase(toHex6(color)) # toUpperCase(currentHex)
        safeList     == SelectSeq(brandKit.allowedColors, Safe)
        fallbackList == SelectSeq(brandKit.allowedColors, Other)
        nearest      == findNearestBrandColor(currentHex, globalKit)
    IN  IF currentHex = Null THEN brandKit.allowedColors[1]
        ELSE IF /\ el.containerFillColor # Null
                /\ bgHex # Null
                /\ ~IsContrastCompliant(currentHex, bgHex, isTextElement, brandKit)
        THEN SuggestFrom(safeList, fallbackList, currentHex, bgHex,
                         isTextElement, brandKit)
        ELSE OrFirstColor(nearest, brandKit)

determineSuggestedColor(el, brandKit, globalKit) ==
    LET currentHex == toHex6(el.fillColor)
        bgHex      == toHex6(el.containerFillColor)
    IN  SuggestFor(el, currentHex, bgHex, el.type = "Text", brandKit, globalKit)

(***************************************************************************)
(* sandbox/code.ts: the document and the Document Provider.                *)
(* A document is the sequence of its nodes in traversal order: node 1 is   *)
(* the artboard, the others are its children.  A colour is the sequence    *)
(* <<red, green, blue, alpha>> of its channels as bytes (the SDK's         *)
(* channel v / 255), or Null when the node has none.                       *)
(***************************************************************************)
colorToHex(color) ==
    IF color = Null THEN Null
    ELSE <<"#">> \o HexByte(color[1]) \o HexByte(color[2])
                 \o HexByte(color[3]) \o HexByte(color[4])

\* findById over the artboards; 0 when no node has the id
findById(document, targetId) ==
    IF \E i \in 1..Len(document) : document[i].id = targetId
    THEN CHOOSE i \in 1..Len(document) : document[i].id = targetId
    ELSE 0

extractFillColor(node) == colorToHex(node.fill)

\* the fill of the nearest ancestor that has one
RECURSIVE extractContainerFillColor(_, _)
extractContainerFillColor(document, node) ==
    LET p == findById(document, node.parent) IN
    IF p = 0 THEN Null
    ELSE IF document[p].fill # Null THEN colorToHex(document[p].fill)
    ELSE extractContainerFillColor(document, document[p])

extractFontName(node) == IF node.type = "Text" THEN node.font ELSE Null

scanDocument(document) ==
    [i \in 1..Len(document) |->
        [id                 |-> document[i].id,
         type               |-> document[i].type,
         fillColor          |-> extractFillColor(document[i]),
         containerFillColor |-> extractContainerFillColor(document, document[i]),
         fontName           |-> extractFontName(document[i])]]

\* what one call of the provider meets in the SDK
SdkOutcomes == {"ok", "colorRefused", "colorRejects", "fontRefused"}

\* fixColor and restoreColor: parse the hex and set the fill.
\* sdkApplies is FALSE when the SDK throws on the assignment.
ApplyColor(document, nodeId, hex, sdkApplies) ==
    LET t == findById(document, nodeId)
        s == StripHash(trim(hex))
    IN  IF t = 0 THEN [ok |-> FALSE, doc |-> document]
        ELSE IF ~IsHexString(s) THEN [ok |-> FALSE, doc |-> document]
        ELSE IF ~(Len(s) = 6 \/ Len(s) = 8) THEN [ok |-> FALSE, doc |-> document]
        ELSE IF ~sdkApplies THEN [ok |-> FALSE, doc |-> document]
        ELSE LET r == parseInt16(SubSeq(s, 1, 2))
                 g == parseInt16(SubSeq(s, 3, 4))
                 b == parseInt16(SubSeq(s, 5, 6))
                 a == IF Len(s) = 8 THEN parseInt16(SubSeq(s, 7, 8)) ELSE 255
             IN  [ok  |-> TRUE,
                  doc |-> [document EXCEPT ![t].fill = <<r, g, b, a>>]]

fixColor(document, nodeId, correctHex, sdkApplies) ==
    ApplyColor(document, nodeId, correctHex, sdkApplies)

restoreColor(document, nodeId, hexColor, sdkApplies) ==
    ApplyColor(document, nodeId, hexColor, sdkApplies)

Courier == <<"C","o","u","r","i","e","r">>

\* the keys of fontPostScriptMap, with the family the SDK font of the first
\* PostScript name belongs to
fontPostScriptMap ==
    << [key |-> toLowerCase(Arial),   family |-> Arial],
       [key |-> toLowerCase(Courier), family |-> Courier],
       [key |-> toLowerCase(Georgia), family |-> Georgia] >>

\* fixFont and restoreFont: look the family up and apply it to a text node.
\* sdkApplies is FALSE when no PostScript name resolves or the edit is refused.
ApplyFont(document, nodeId, fontFamily, sdkApplies) ==
    LET t == findById(document, nodeId)
        normalizedFamily == normalizeFontName(fontFamily)
        Mapped(i) == fontPostScriptMap[i].key = normalizedFamily
    IN  IF t = 0 THEN [ok |-> FALSE, doc |-> document]
        ELSE IF document[t].type # "Text" THEN [ok |-> FALSE, doc |-> document]
        ELSE IF normalizedFamily = Null THEN [ok |-> FALSE, doc |-> document]
        ELSE IF ~\E i \in 1..Len(fontPostScriptMap) : Mapped(i)
             THEN [ok |-> FALSE, doc |-> document]
        ELSE IF ~sdkApplies THEN [ok |-> FALSE, doc |-> document]
        ELSE LET i == CHOOSE j \in 1..Len(fontPostScriptMap) : Mapped(j)
             IN  [ok  |-> TRUE,
                  doc |-> [document EXCEPT ![t].font = fontPostScriptMap[i].family]]

fixFont(document, nodeId, fontFamily, sdkApplies) ==
    ApplyFont(document, nodeId, fontFamily, sdkApplies)

restoreFont(document, nodeId, fontName, sdkApplies) ==
    ApplyFont(document, nodeId, fontName, sdkApplies)

(***************************************************************************)
(* App.tsx: the handlers, as functions of the state they read and write.   *)
(* st = [doc, elements, violations, healthScore, calls]: the document, the *)
(* three pieces of React state an audit sets, and the provider calls the   *)
(* running handler has issued so far.                                      *)
(***************************************************************************)
\* the record of one provider call: the function, the node, the argument and
\* what the SDK does with it, given the outcome drawn for the node
Call(fn, nodeId, arg, outcome) ==
    <<fn, nodeId, arg,
      IF fn \in {"fixColor", "restoreColor"} /\ outcome = "colorRejects"
      THEN "rejected"
      ELSE IF fn \in {"fixColor", "restoreColor"} /\ outcome = "colorRefused"
      THEN "refused"
      ELSE IF fn \in {"fixFont", "restoreFont"} /\ outcome = "fontRefused"
      THEN "refused"
      ELSE "ok">>

\* the calls of a log the SDK failed
FailedCalls(log) == Cardinality({i \in 1..Len(log) : log[i][4] # "ok"})

\* the score it would be with Math.floor
ScoreFloor(totalScannable, bad) ==
    IF totalScannable > 0
    THEN (100 * (totalScannable - bad)) \div totalScannable
    ELSE 100

\* Math.round(((total - bad) / total) * 100), 100 when nothing was scanned
Score(totalScannable, bad) ==
    IF totalScannable > 0
    THEN (200 * (totalScannable - bad) + totalScannable) \div (2 * totalScannable)
    ELSE 100

\* setElements(results); setViolations(badElements); setHealthScore(score)
SetAudit(st, results, bad) ==
    [st EXCEPT !.elements    = results,
               !.violations  = bad,
               !.healthScore = Score(Len(results), Len(bad))]

AuditResults(st, results, brandKit, globalKit) ==
    LET bad == badElements(results, brandKit, globalKit)
    IN  SetAudit(st, results, bad)

handleAudit(st, brandKit, globalKit) ==
    LET results == scanDocument(st.doc)
    IN  AuditResults(st, results, brandKit, globalKit)

\* the end of handleFix's try block: fonted is the result of the fixFont
\* call, if one was made; ok = false throws into the catch, before the audit
FixAudit(st1, suggestedFont, fonted, fontCall, brandKit, globalKit) ==
    IF suggestedFont # Null /\ ~fonted.ok
    THEN [st1 EXCEPT !.calls = Append(@, fontCall)]
    ELSE LET st2 == IF suggestedFont = Null THEN st1
                    ELSE [st1 EXCEPT !.doc = fonted.doc,
                                     !.calls = Append(@, fontCall)]
         IN  handleAudit(st2, brandKit, globalKit)

\* the try block of handleFix from the fixFont call on
FixFontStep(st1, el, suggestedFont, brandKit, globalKit, outcome) ==
    LET fonted   == fixFont(st1.doc, el.id, suggestedFont, outcome # "fontRefused")
        fontCall == Call("fixFont", el.id, suggestedFont, outcome)
    IN  FixAudit(st1, suggestedFont, fonted, fontCall, brandKit, globalKit)

\* the try block of handleFix
FixSteps(st, el, suggestedColor, suggestedFont, brandKit, globalKit, outcome) ==
    IF suggestedColor # Null /\ outcome = "colorRejects"
    THEN [st EXCEPT !.calls = Append(@, Call("fixColor", el.id, suggestedColor,
                                             outcome))]
    ELSE LET st1 == IF suggestedColor = Null THEN st
                    ELSE [st EXCEPT !.doc = fixColor(st.doc, el.id, suggestedColor,
                                                     outcome # "colorRefused").doc,
                                    !.calls = Append(@, Call("fixColor", el.id,
                                                             suggestedColor, outcome))]
         IN  FixFontStep(st1, el, suggestedFont, brandKit, globalKit, outcome)

\* outcome is what the SDK does with the calls made for this element.
\* The try/catch of handleFix swallows every failure: the result never throws.
handleFix(st, el, brandKit, globalKit, outcome) ==
    LET suggestedColor == determineSuggestedColor(el, brandKit, globalKit)
        needsFontFix   == el.fontName # Null
                            /\ ~isFontAllowed(el.fontName, globalKit.allowedFonts)
        suggestedFont  == IF needsFontFix THEN brandKit.allowedFonts[1] ELSE Null
    IN  FixSteps(st, el, suggestedColor, suggestedFont, brandKit, globalKit, outcome)

RECURSIVE FixLoopStopAtReject(_, _, _, _, _, _)
RECURSIVE FixLoop(_, _, _, _, _, _)
\* the loop it would be if handleFix let a rejected call escape
FixLoopStopAtReject(st, batch, i, brandKit, globalKit, sdk) ==
    IF i > Len(batch) THEN st
    ELSE LET next == handleFix(st, batch[i], brandKit, globalKit, sdk[batch[i].id])
             j    == IF sdk[batch[i].id] = "colorRejects" THEN Len(batch) + 1 ELSE i + 1
         IN  FixLoopStopAtReject(next, batch, j, brandKit, globalKit, sdk)

\* for (const el of violations) { await handleFix(el); }
FixLoop(st, batch, i, brandKit, globalKit, sdk) ==
    IF i > Len(batch) THEN st
    ELSE LET next == handleFix(st, batch[i], brandKit, globalKit, sdk[batch[i].id])
         IN  FixLoop(next, batch, i + 1, brandKit, globalKit, sdk)

NoSnapshot == [live |-> FALSE, entries |-> <<>>]

\* the snapshot Map, in insertion order: one entry per listed violation,
\* taken from the fresh scan (or from the listing when the node is gone)
CaptureSnapshot(batch, currentResults) ==
    [live |-> TRUE,
     entries |->
        [i \in 1..Len(batch) |->
            LET Same(j) == currentResults[j].id = batch[i].id IN
            IF \E j \in 1..Len(currentResults) : Same(j)
            THEN LET currentEl == currentResults[CHOOSE j \in 1..Len(currentResults) : Same(j)]
                 IN  [id |-> batch[i].id, color |-> currentEl.fillColor,
                      font |-> currentEl.fontName]
            ELSE [id |-> batch[i].id, color |-> batch[i].fillColor,
                  font |-> batch[i].fontName]]]

\* result: the state and the snapshot
handleFixAll(st, snapshot, brandKit, globalKit, sdk) ==
    LET currentResults == scanDocument(st.doc) IN
    IF Len(st.violations) > 0
    THEN [st       |-> FixLoop(st, st.violations, 1, brandKit, globalKit, sdk),
          snapshot |-> CaptureSnapshot(st.violations, currentResults)]
    ELSE [st |-> st, snapshot |-> snapshot]

\* the restore loop from entry i on; threw when a provider call rejected
RECURSIVE RestoreLoop(_, _, _, _)
RestoreLoop(st, entries, i, sdk) ==
    IF i > Len(entries) THEN [st |-> st, threw |-> FALSE]
    ELSE LET e         == entries[i]
             outcome   == sdk[e.id]
             colorCall == Call("restoreColor", e.id, e.color, outcome)
             fontCall  == Call("restoreFont", e.id, e.font, outcome)
             colored   == restoreColor(st.doc, e.id, e.color, outcome # "colorRefused")
             st1 == IF e.color = Null THEN st
                    ELSE [st EXCEPT !.doc = colored.doc,
                                    !.calls = Append(st.calls, colorCall)]
             fonted == restoreFont(st1.doc, e.id, e.font, outcome # "fontRefused")
             st2 == IF e.font = Null THEN st1
                    ELSE [st1 EXCEPT !.doc = fonted.doc,
                                     !.calls = Append(st1.calls, fontCall)]
         IN  IF e.color # Null /\ outcome = "colorRejects"
             THEN [st |-> [st EXCEPT !.calls = Append(st.calls, colorCall)],
                   threw |-> TRUE]
             ELSE RestoreLoop(st2, entries, i + 1, sdk)

\* the handler it would be without the early return on a missing snapshot
handleUndoAllNoGuard(st, snapshot, brandKit, globalKit, sdk) ==
    LET restored == RestoreLoop(st, snapshot.entries, 1, sdk) IN
    IF restored.threw
    THEN [st |-> restored.st, snapshot |-> snapshot, warned |-> FALSE]
    ELSE [st |-> handleAudit(restored.st, brandKit, globalKit),
          snapshot |-> NoSnapshot, warned |-> FALSE]

\* result: the state, the snapshot and whether the warning was logged
handleUndoAll(st, snapshot, brandKit, globalKit, sdk) ==
    IF ~snapshot.live
    THEN [st |-> st, snapshot |-> snapshot, warned |-> TRUE]
    ELSE LET restored == RestoreLoop(st, snapshot.entries, 1, sdk) IN
         IF restored.threw
         THEN [st |-> restored.st, snapshot |-> snapshot, warned |-> FALSE]
         ELSE [st |-> handleAudit(restored.st, brandKit, globalKit),
               snapshot |-> NoSnapshot, warned |-> FALSE]

(***************************************************************************)
(* The add-on as a state machine.  Every action is one handler of App.tsx  *)
(* run to completion: the calls it awaits are served before the next       *)
(* handler starts.  The handlers are driven as the callbacks they are,     *)
(* whether or not the button that calls them is on screen.                 *)
(***************************************************************************)
MaxChildren == 1

MaxSteps == 4

\* the SDK fails the calls of at most MaxFailures nodes in a run of the program
MaxFailures == 1

White == <<255, 255, 255, 255>>

Grey  == <<218, 218, 218, 255>>

Pale  == <<238, 238, 238, 255>>

Black == <<0, 0, 0, 255>>

Artboards ==
    { [id |-> 1, type |-> "ab:Artboard", fill |-> f, font |-> Null, parent |-> 0] :
        f \in {White, Black} }

ChildKinds ==
    << [type |-> "Text",      fill |-> Grey, font |-> Verdana],
       [type |-> "Text",      fill |-> Grey, font |-> Georgia],
       [type |-> "Text",      fill |-> Null, font |-> Verdana],
       [type |-> "Rectangle", fill |-> Pale, font |-> Null] >>

\* the kinds of n siblings.  No handler relates one sibling to another, so
\* one order of each choice of kinds stands for all its orders.
Siblings(n) ==
    { kinds \in [1..n -> 1..Len(ChildKinds)] :
        \A i \in 1..(n - 1) : kinds[i] <= kinds[i + 1] }

\* the documents a user may have open
Documents ==
    UNION { { <<ab>> \o [i \in 1..n |->
                  [id |-> i + 1, type |-> ChildKinds[kinds[i]].type,
                   fill |-> ChildKinds[kinds[i]].fill,
                   font |-> ChildKinds[kinds[i]].font, parent |-> 1]] :
              ab \in Artboards, kinds \in Siblings(n) } :
            n \in 1..MaxChildren }

\* the registry: the default kit and the kits the user uploaded
KitIds == {"default", "soft"}

KitById(kitId) ==
    CASE kitId = "soft" -> SoftKit
      [] OTHER          -> DefaultKit

\* the number of nodes of a run the SDK fails a call for
Failed(sdk) == Cardinality({i \in DOMAIN sdk : sdk[i] # "ok"})

\* what the SDK can do with the calls handleFix makes for el: the fill is
\* always set, the font only when the font check fails
FixOutcomes(el, globalKit) ==
    {"ok", "colorRefused", "colorRejects"}
      \cup ( IF el.fontName # Null /\ ~isFontAllowed(el.fontName, globalKit.allowedFonts)
             THEN {"fontRefused"} ELSE {} )

\* what the SDK can do with the calls handleUndoAll makes for a snapshot entry
RestoreOutcomes(e) ==
    {"ok"} \cup (IF e.color # Null THEN {"colorRefused", "colorRejects"} ELSE {})
           \cup (IF e.font # Null THEN {"fontRefused"} ELSE {})

\* the same for every element handleFixAll loops over, by node id
FixAllOutcomes(list, globalKit) ==
    [id \in {list[i].id : i \in 1..Len(list)} |->
        FixOutcomes(list[CHOOSE i \in 1..Len(list) : list[i].id = id], globalKit)]

\* and for every snapshot entry handleUndoAll loops over, by node id
UndoAllOutcomes(entries) ==
    [id \in {entries[i].id : i \in 1..Len(entries)} |->
        RestoreOutcomes(entries[CHOOSE i \in 1..Len(entries) : entries[i].id = id])]

\* what the SDK does with the calls for each node: one of the outcomes the
\* node's calls can meet, a failure for at most left of the nodes
SdkRuns(applicable, left) ==
    { sdk \in [DOMAIN applicable -> SdkOutcomes] :
        /\ \A id \in DOMAIN applicable : sdk[id] \in applicable[id]
        /\ Failed(sdk) <= left }

VARIABLES
    doc,             \* the document in the editor
    elements,        \* App state: the last scan
    violations,      \* App state: the listed violations
    healthScore,     \* App state
    fixAllSnapshot,  \* App state: the snapshot of Undo All
    hasStarted,      \* App state
    brandKit,        \* App state: useBrandKit(), what the callbacks close over
    managerKit,      \* BrandKitManager.brandKit, what getBrandKit() returns
    activeKitId,     \* localStorage: brandguard_active_brand_kit_id
    calls,           \* the provider calls issued by the last handler
    lastOp,          \* the last handler that ran
    warned,          \* the last handler logged 'No snapshot available to undo'
    passKit,         \* the kit the last audit pass closed over when it started
    hist,            \* history of the live snapshot, see NoHist
    failures,        \* the number of calls the SDK failed so far
    running,         \* the handlers that await the Document Provider
    steps,           \* the number of handlers run so far
    probe            \* one element or one upload put to a single operation

vars == <<doc, elements, violations, healthScore, fixAllSnapshot, hasStarted,
          brandKit, managerKit, activeKitId, calls, lastOp, warned, passKit,
          hist, failures, running, steps, probe>>

St == [doc |-> doc, elements |-> elements, violations |-> violations,
       healthScore |-> healthScore, calls |-> <<>>]

SetSt(st) ==
    /\ doc' = st.doc
    /\ elements' = st.elements
    /\ violations' = st.violations
    /\ healthScore' = st.healthScore
    /\ calls' = st.calls

\* pre: the document just before the batch that captured the live snapshot;
\* chain: what ran since that batch ("batch" nothing, "noop" only Fix All runs
\* that found nothing to fix, "other" a handler that changed the document);
\* clean: the SDK failed no call of that batch;
\* changing: the snapshot captured by the last batch that changed the document
NoHist == [pre |-> <<>>, chain |-> "none", clean |-> TRUE, changing |-> NoSnapshot]

\* no operation is probed
NoProbe == [op |-> "none"]

Step(op) ==
    /\ steps < MaxSteps
    /\ steps' = steps + 1
    /\ lastOp' = op
    /\ UNCHANGED running
    /\ UNCHANGED probe

Init ==
    /\ doc \in Documents
    /\ elements = <<>>
    /\ violations = <<>>
    /\ healthScore = 100
    /\ fixAllSnapshot = NoSnapshot
    /\ hasStarted = FALSE
    /\ activeKitId = "default"
    /\ managerKit = KitById(activeKitId)
    /\ brandKit = managerKit
    /\ calls = <<>>
    /\ lastOp = "init"
    /\ warned = FALSE
    /\ passKit = brandKit
    /\ hist = NoHist
    /\ failures = 0
    /\ running = <<>>
    /\ steps = 0
    /\ probe = NoProbe

\* handleGetStarted, handleAuditTabClick
Audit ==
    /\ Step("audit")
    /\ \E st \in {handleAudit(St, brandKit, managerKit)} : SetSt(st)
    /\ hasStarted' = TRUE
    /\ passKit' = brandKit
    /\ warned' = FALSE
    /\ UNCHANGED failures
    /\ UNCHANGED <<fixAllSnapshot, brandKit, managerKit, activeKitId, hist>>

\* the Fix button of the card of violations[i]
Fix(i) ==
    /\ Step("fix")
    /\ hasStarted
    /\ i \in 1..Len(violations)
    /\ \E outcome \in FixOutcomes(violations[i], managerKit) :
         /\ outcome = "ok" \/ failures < MaxFailures
         /\ \E st \in {handleFix(St, violations[i], brandKit, managerKit, outcome)} :
              /\ SetSt(st)
              /\ failures' = failures + FailedCalls(st.calls)
              /\ hist' = [hist EXCEPT !.chain = IF st.doc = doc \/ @ = "none"
                                                THEN @ ELSE "other"]
    /\ passKit' = brandKit
    /\ warned' = FALSE
    /\ UNCHANGED <<fixAllSnapshot, hasStarted, brandKit, managerKit, activeKitId>>

FixAll ==
    /\ Step("fixAll")
    /\ hasStarted
    /\ \E sdk \in SdkRuns(FixAllOutcomes(violations, managerKit),
                           MaxFailures - failures) :
         \E res \in {handleFixAll(St, fixAllSnapshot, brandKit, managerKit, sdk)} :
         /\ SetSt(res.st)
         /\ fixAllSnapshot' = res.snapshot
         /\ failures' = failures + FailedCalls(res.st.calls)
         /\ hist' =
              IF Len(violations) = 0
              THEN [hist EXCEPT !.chain = IF @ \in {"batch", "noop"} THEN "noop" ELSE @]
              ELSE [hist EXCEPT !.pre = doc, !.chain = "batch",
                                !.clean = FailedCalls(res.st.calls) = 0,
                                !.changing = IF res.st.doc # doc
                                             THEN res.snapshot ELSE @]
    /\ passKit' = brandKit
    /\ warned' = FALSE
    /\ UNCHANGED <<hasStarted, brandKit, managerKit, activeKitId>>

UndoAll ==
    /\ Step("undoAll")
    /\ hasStarted
    /\ \E sdk \in SdkRuns(UndoAllOutcomes(fixAllSnapshot.entries),
                           MaxFailures - failures) :
         \E res \in {handleUndoAll(St, fixAllSnapshot, brandKit, managerKit, sdk)} :
         /\ SetSt(res.st)
         /\ fixAllSnapshot' = res.snapshot
         /\ warned' = res.warned
         /\ failures' = failures + FailedCalls(res.st.calls)
         /\ hist' =
              IF ~fixAllSnapshot.live THEN hist
              ELSE IF res.snapshot.live
              THEN [hist EXCEPT !.chain = IF res.st.doc = doc THEN @ ELSE "other"]
              ELSE NoHist
    /\ passKit' = IF fixAllSnapshot.live /\ ~fixAllSnapshot'.live
                  THEN brandKit ELSE passKit
    /\ UNCHANGED <<hasStarted, brandKit, managerKit, activeKitId>>

\* BrandKitSelector.handleSelectKit: setActiveKit stores the id, reloads the
\* manager's kit and notifies the listeners; then onBrandKitChange runs the
\* handleAudit of the render the click happened in, which closes over the
\* brandKit of that render
SelectKit(kitId) ==
    /\ Step("selectKit")
    /\ kitId \in KitIds
    /\ kitId # activeKitId
    /\ activeKitId' = kitId
    /\ managerKit' = KitById(kitId)
    /\ brandKit' = managerKit'
    /\ IF hasStarted
       THEN /\ \E st \in {handleAudit(St, brandKit, KitById(kitId))} : SetSt(st)
            /\ passKit' = brandKit
       ELSE UNCHANGED <<doc, elements, violations, healthScore, calls, passKit>>
    /\ warned' = FALSE
    /\ UNCHANGED failures
    /\ UNCHANGED <<fixAllSnapshot, hasStarted, hist>>

Next ==
    \/ Audit
    \/ \E i \in 1..(MaxChildren + 1) : Fix(i)
    \/ FixAll
    \/ UndoAll
    \/ \E kitId \in KitIds : SelectKit(kitId)

Spec == Init /\ [][Next]_vars

(***************************************************************************)
(* The same handlers, one await at a time.  A click starts a handler when   *)
(* its button is on screen and enabled; the handler then waits for the      *)
(* Document Provider, and Serve lets one waiting handler run up to its next *)
(* await (for Fix All and Undo All: up to the next element).                *)
(***************************************************************************)
MaxRunning == 2

Run(op, batch, i) == [op |-> op, batch |-> batch, i |-> i]

Start(op, batch, i) ==
    /\ steps < MaxSteps
    /\ steps' = steps + 1
    /\ Len(running) < MaxRunning
    /\ running' = Append(running, Run(op, batch, i))
    /\ lastOp' = op
    /\ UNCHANGED <<doc, elements, violations, healthScore, fixAllSnapshot,
                   brandKit, managerKit, activeKitId, calls, warned, passKit,
                   hist, failures, probe>>

\* isAuditing, set by handleAudit(true) until its scan returns
isAuditing == \E k \in 1..Len(running) : running[k].op = "audit"

\* the Start Audit button
GetStarted ==
    /\ ~hasStarted
    /\ hasStarted' = TRUE
    /\ Start("audit", <<>>, 0)

\* the audit tab button, disabled while isAuditing
ClickAuditTab ==
    /\ hasStarted
    /\ ~isAuditing
    /\ Start("audit", <<>>, 0)
    /\ UNCHANGED hasStarted

\* the Fix All Violations button, rendered while violations are listed
ClickFixAll ==
    /\ hasStarted
    /\ Len(elements) > 0
    /\ Len(violations) > 0
    /\ Start("fixAll", violations, 0)
    /\ UNCHANGED hasStarted

\* the Undo All button, rendered while a snapshot is set
ClickUndoAll ==
    /\ hasStarted
    /\ Len(elements) > 0
    /\ fixAllSnapshot.live
    /\ Start("undoAll", fixAllSnapshot.entries, 1)
    /\ UNCHANGED hasStarted

Remove(k) == SubSeq(running, 1, k - 1) \o SubSeq(running, k + 1, Len(running))

\* the provider answers the call running[k] awaits
Serve(k) ==
    /\ k \in 1..Len(running)
    /\ LET r    == running[k]
           last == r.i >= Len(r.batch)
           ok   == [id \in {r.batch[j].id : j \in 1..Len(r.batch)} |-> "ok"]
       IN  /\ running' = IF last THEN Remove(k)
                         ELSE [running EXCEPT ![k].i = r.i + 1]
           /\ lastOp' = "serve"
           /\ CASE r.op = "audit" ->
                     /\ \E st \in {handleAudit(St, brandKit, managerKit)} : SetSt(st)
                     /\ UNCHANGED fixAllSnapshot
                [] r.op = "fixAll" /\ r.i = 0 ->
                     /\ fixAllSnapshot' = CaptureSnapshot(r.batch, scanDocument(doc))
                     /\ UNCHANGED <<doc, elements, violations, healthScore, calls>>
                [] r.op = "fixAll" /\ r.i > 0 ->
                     /\ \E st \in {handleFix(St, r.batch[r.i], brandKit, managerKit, "ok")} :
                          SetSt(st)
                     /\ UNCHANGED fixAllSnapshot
                [] OTHER ->
                     \E res \in {RestoreLoop(St, <<r.batch[r.i]>>, 1, ok)} :
                       IF last
                       THEN /\ \E st \in {handleAudit(res.st, brandKit, managerKit)} :
                                 SetSt(st)
                            /\ fixAllSnapshot' = NoSnapshot
                       ELSE /\ SetSt(res.st)
                            /\ UNCHANGED fixAllSnapshot
    /\ UNCHANGED <<hasStarted, brandKit, managerKit, activeKitId, warned, passKit,
                   hist, failures, steps, probe>>

NextAsync ==
    \/ GetStarted
    \/ ClickAuditTab
    \/ ClickFixAll
    \/ ClickUndoAll
    \/ \E k \in 1..MaxRunning : Serve(k)

SpecAsync == Init /\ [][NextAsync]_vars

(***************************************************************************)
(* hooks/useBrandKit.ts: validateBrandKit and BrandKitManager.uploadBrandKit *)
(* A JavaScript value is a record of its type tag t and its value; an       *)
(* object is a function from its property names, an array a sequence.  A    *)
(* number is scaled by 10^3.  An error is its field, the index the field    *)
(* path carries (-1 for none), the reason its message gives and the         *)
(* position the message of a duplicate names (-1 for none).                 *)
(***************************************************************************)
JUndefined == [t |-> "undefined"]

JNull == [t |-> "null"]

JString(s) == [t |-> "string", s |-> s]

JNumber(n) == [t |-> "number", n |-> n]

JArray(a) == [t |-> "array", a |-> a]

JObject(o) == [t |-> "object", o |-> o]

\* x.name
Prop(x, name) ==
    IF x.t = "object" /\ name \in DOMAIN x.o THEN x.o[name] ELSE JUndefined

\* typeof x
TypeOf(x) == IF x.t \in {"null", "array", "object"} THEN "object" ELSE x.t

\* !!x
Truthy(x) ==
    CASE x.t \in {"undefined", "null"} -> FALSE
      [] x.t = "string"                -> x.s # <<>>
      [] x.t = "number"                -> x.n # 0
      [] OTHER                         -> TRUE

AVAILABLE_FONTS ==
    { <<"A","r","i","a","l">>,
      <<"G","e","o","r","g","i","a">>,
      <<"C","o","u","r","i","e","r">>,
      <<"C","o","u","r","i","e","r"," ","N","e","w">>,
      <<"S","o","u","r","c","e"," ","S","a","n","s"," ","3">>,
      <<"L","a","t","o">>,
      <<"T","i","m","e","s"," ","N","e","w"," ","R","o","m","a","n">>,
      <<"V","e","r","d","a","n","a">>,
      <<"T","a","h","o","m","a">>,
      <<"H","e","l","v","e","t","i","c","a">>,
      <<"C","o","m","i","c"," ","S","a","n","s"," ","M","S">>,
      <<"I","m","p","a","c","t">>,
      <<"T","r","e","b","u","c","h","e","t"," ","M","S">>,
      <<"L","u","c","i","d","a"," ","S","a","n","s"," ","U","n","i","c","o","d","e">>,
      <<"P","a","l","a","t","i","n","o">>,
      <<"G","a","r","a","m","o","n","d">>,
      <<"B","o","o","k","m","a","n">>,
      <<"A","v","a","n","t"," ","G","a","r","d","e">>,
      <<"C","e","n","t","u","r","y"," ","G","o","t","h","i","c">>,
      <<"F","u","t","u","r","a">> }

KNOWN_AVAILABLE_FONTS == { toLowerCase(trim(f)) : f \in AVAILABLE_FONTS }

normalizeFontNameForValidation(fontName) == trim(toLowerCase(fontName))

\* of a string
isValidHexColor(color) ==
    LET trimmed == trim(color) IN
    /\ startsWith(trimmed, <<"#">>)
    /\ Len(Tail(trimmed)) = 3 \/ Len(Tail(trimmed)) = 6
    /\ IsHexString(Tail(trimmed))

normalizeHexColor(color) ==
    IF ~isValidHexColor(color) THEN Null
    ELSE LET trimmed == toUpperCase(trim(color))
             hexPart == Tail(trimmed)
         IN  IF Len(hexPart) = 3
             THEN <<"#", hexPart[1], hexPart[1], hexPart[2], hexPart[2],
                    hexPart[3], hexPart[3]>>
             ELSE trimmed

ValidationError(field, index, reason, position) ==
    [field |-> field, index |-> index, reason |-> reason, position |-> position]

NameErrors(kit) ==
    LET name == Prop(kit, "name") IN
    IF ~Truthy(name) \/ TypeOf(name) # "string" \/ Len(trim(name.s)) = 0
    THEN << ValidationError("name", -1, "empty", -1) >>
    ELSE <<>>

\* the error of a string that is not a valid hex colour
HexFormatError(index, trimmedColor) ==
    IF ~startsWith(trimmedColor, <<"#">>)
    THEN ValidationError("allowedColors", index, "noHash", -1)
    ELSE IF Len(trimmedColor) < 4 \/ Len(trimmedColor) > 7
    THEN ValidationError("allowedColors", index, "digits", -1)
    ELSE IF ~IsHexString(Tail(trimmedColor))
    THEN ValidationError("allowedColors", index, "hexCharacters", -1)
    ELSE ValidationError("allowedColors", index, "notValid", -1)

\* the loop if it compared the colours as written, 3-digit forms not expanded
RECURSIVE ColorLoopAsWritten(_, _, _, _)
ColorLoopAsWritten(colors, index, normalizedColors, errors) ==
    IF index >= Len(colors) THEN errors
    ELSE LET color == colors[index + 1] IN
         IF color.t \in {"null", "undefined"}
         THEN ColorLoopAsWritten(colors, index + 1, normalizedColors,
                  Append(errors, ValidationError("allowedColors", index, "null", -1)))
         ELSE IF TypeOf(color) # "string"
         THEN ColorLoopAsWritten(colors, index + 1, normalizedColors,
                  Append(errors, ValidationError("allowedColors", index, "notString", -1)))
         ELSE IF Len(trim(color.s)) = 0
         THEN ColorLoopAsWritten(colors, index + 1, normalizedColors,
                  Append(errors, ValidationError("allowedColors", index, "empty", -1)))
         ELSE IF ~isValidHexColor(trim(color.s))
         THEN ColorLoopAsWritten(colors, index + 1, normalizedColors,
                  Append(errors, HexFormatError(index, trim(color.s))))
         ELSE LET normalized == toUpperCase(trim(color.s)) IN
              IF normalized = Null
              THEN ColorLoopAsWritten(colors, index + 1, normalizedColors, errors)
              ELSE IF normalized \in DOMAIN normalizedColors
              THEN ColorLoopAsWritten(colors, index + 1, normalizedColors,
                       Append(errors,
                              ValidationError("allowedColors", index, "duplicate",
                                              normalizedColors[normalized])))
              ELSE ColorLoopAsWritten(colors, index + 1,
                             [n \in DOMAIN normalizedColors \cup {normalized} |->
                                 IF n = normalized THEN index ELSE normalizedColors[n]],
                             errors)

\* kit.allowedColors.forEach from index on; normalizedColors is the Map from
\* a normalized colour to the index it was first seen at
RECURSIVE ColorLoop(_, _, _, _)
ColorLoop(colors, index, normalizedColors, errors) ==
    IF index >= Len(colors) THEN errors
    ELSE LET color == colors[index + 1] IN
         IF color.t \in {"null", "undefined"}
         THEN ColorLoop(colors, index + 1, normalizedColors,
                  Append(errors, ValidationError("allowedColors", index, "null", -1)))
         ELSE IF TypeOf(color) # "string"
         THEN ColorLoop(colors, index + 1, normalizedColors,
                  Append(errors, ValidationError("allowedColors", index, "notString", -1)))
         ELSE IF Len(trim(color.s)) = 0
         THEN ColorLoop(colors, index + 1, normalizedColors,
                  Append(errors, ValidationError("allowedColors", index, "empty", -1)))
         ELSE IF ~isValidHexColor(trim(color.s))
         THEN ColorLoop(colors, index + 1, normalizedColors,
                  Append(errors, HexFormatError(index, trim(color.s))))
         ELSE LET normalized == normalizeHexColor(trim(color.s)) IN
              IF normalized = Null
              THEN ColorLoop(colors, index + 1, normalizedColors, errors)
              ELSE IF normalized \in DOMAIN normalizedColors
              THEN ColorLoop(colors, index + 1, normalizedColors,
                       Append(errors,
                              ValidationError("allowedColors", index, "duplicate",
                                              normalizedColors[normalized])))
              ELSE ColorLoop(colors, index + 1,
                             [n \in DOMAIN normalizedColors \cup {normalized} |->
                                 IF n = normalized THEN index ELSE normalizedColors[n]],
                             errors)

ColorErrors(kit) ==
    LET allowedColors == Prop(kit, "allowedColors") IN
    IF allowedColors.t # "array"
    THEN << ValidationError("allowedColors", -1, "notArray", -1) >>
    ELSE IF Len(allowedColors.a) = 0
    THEN << ValidationError("allowedColors", -1, "noColor", -1) >>
    ELSE ColorLoop(allowedColors.a, 0, <<>>, <<>>)

\* kit.allowedFonts.forEach from index on
RECURSIVE FontLoop(_, _, _, _)
FontLoop(fonts, index, seenFonts, errors) ==
    IF index >= Len(fonts) THEN errors
    ELSE LET font == fonts[index + 1] IN
         IF font.t \in {"null", "undefined"}
         THEN FontLoop(fonts, index + 1, seenFonts,
                  Append(errors, ValidationError("allowedFonts", index, "null", -1)))
         ELSE IF TypeOf(font) # "string"
         THEN FontLoop(fonts, index + 1, seenFonts,
                  Append(errors, ValidationError("allowedFonts", index, "notString", -1)))
         ELSE IF Len(trim(font.s)) = 0
         THEN FontLoop(fonts, index + 1, seenFonts,
                  Append(errors, ValidationError("allowedFonts", index, "empty", -1)))
         ELSE LET normalizedFont == normalizeFontNameForValidation(trim(font.s)) IN
              IF normalizedFont \in seenFonts
              THEN FontLoop(fonts, index + 1, seenFonts,
                       Append(errors,
                              ValidationError("allowedFonts", index, "duplicate", -1)))
              ELSE FontLoop(fonts, index + 1, seenFonts \cup {normalizedFont},
                       IF normalizedFont \in KNOWN_AVAILABLE_FONTS THEN errors
                       ELSE Append(errors,
                                ValidationError("allowedFonts", index, "notAvailable", -1)))

FontErrors(kit) ==
    LET allowedFonts == Prop(kit, "allowedFonts") IN
    IF allowedFonts.t # "array"
    THEN << ValidationError("allowedFonts", -1, "notArray", -1) >>
    ELSE IF Len(allowedFonts.a) = 0
    THEN << ValidationError("allowedFonts", -1, "noFont", -1) >>
    ELSE FontLoop(allowedFonts.a, 0, {}, <<>>)

AccessibilityErrors(kit) ==
    LET accessibility == Prop(kit, "accessibility") IN
    IF ~Truthy(accessibility) \/ TypeOf(accessibility) # "object"
    THEN << ValidationError("accessibility", -1, "notObject", -1) >>
    ELSE LET minContrast == Prop(accessibility, "minContrast") IN
         IF TypeOf(minContrast) # "number"
         THEN << ValidationError("accessibility.minContrast", -1, "notNumber", -1) >>
         ELSE IF minContrast.n < 0 \/ minContrast.n > 21000
         THEN << ValidationError("accessibility.minContrast", -1, "range", -1) >>
         ELSE <<>>

\* the errors it would return if the first group that fails ended the run
FirstErrors(name, colors, fonts, accessibility) ==
    IF name # <<>> THEN name
    ELSE IF colors # <<>> THEN colors
    ELSE IF fonts # <<>> THEN fonts
    ELSE accessibility

\* the four rule groups, each run whatever the others found
AllErrors(name, colors, fonts, accessibility) ==
    name \o colors \o fonts \o accessibility

validateBrandKit(kit) ==
    IF ~Truthy(kit) \/ TypeOf(kit) # "object"
    THEN [valid  |-> FALSE,
          errors |-> << ValidationError("root", -1, "notObject", -1) >>]
    ELSE LET errors == AllErrors(NameErrors(kit), ColorErrors(kit),
                                 FontErrors(kit), AccessibilityErrors(kit))
         IN  [valid |-> Len(errors) = 0, errors |-> errors]

\* the extended fields uploadBrandKit copies
ExtendedFields == {"typography", "typographyRules", "colors", "customRules"}

\* normalizedKit of uploadBrandKit, for a kit that passed validation
NormalizedKit(kit) ==
    LET base ==
            [name          |-> trim(Prop(kit, "name").s),
             allowedColors |->
                 [i \in 1..Len(Prop(kit, "allowedColors").a) |->
                     toUpperCase(trim(Prop(kit, "allowedColors").a[i].s))],
             allowedFonts  |->
                 [i \in 1..Len(Prop(kit, "allowedFonts").a) |->
                     trim(Prop(kit, "allowedFonts").a[i].s)],
             accessibility |->
                 [minContrast |-> Prop(Prop(kit, "accessibility"), "minContrast").n]]
        kept == { f \in ExtendedFields : Truthy(Prop(kit, f)) }
    IN  [f \in DOMAIN base \cup kept |->
            IF f \in kept THEN Prop(kit, f) ELSE base[f]]

\* result: what uploadBrandKit returns and the kit it stored and activated
\* (Null when it stored none); storageWrites is FALSE when localStorage throws
uploadBrandKit(kit, storageWrites) ==
    LET validation == validateBrandKit(kit) IN
    IF ~validation.valid THEN [validation |-> validation, stored |-> Null]
    ELSE IF ~storageWrites
    THEN [validation |->
              [valid  |-> FALSE,
               errors |-> << ValidationError("storage", -1, "storage", -1) >>],
          stored |-> Null]
    ELSE [validation |-> validation, stored |-> NormalizedKit(kit)]

(***************************************************************************)
(* One audit pass and the suggestions for its listing, on documents of one *)
(* element under kits of several palettes and thresholds.  probe holds the *)
(* document, the kit in force and what the operation produced.             *)
(***************************************************************************)
\* every variable of the add-on at rest
Parked ==
    /\ doc = <<>>
    /\ elements = <<>>
    /\ violations = <<>>
    /\ healthScore = 100
    /\ fixAllSnapshot = NoSnapshot
    /\ hasStarted = FALSE
    /\ activeKitId = "default"
    /\ managerKit = DefaultKit
    /\ brandKit = DefaultKit
    /\ calls = <<>>
    /\ lastOp = "init"
    /\ warned = FALSE
    /\ passKit = DefaultKit
    /\ hist = NoHist
    /\ failures = 0
    /\ running = <<>>
    /\ steps = 0

\* a stored kit colour: '#' and six upper-case digits
KitColor(color) == SubSeq(colorToHex(color), 1, 7)

Light == <<240, 240, 240, 255>>

Dim   == <<236, 236, 236, 255>>

Mid   == <<119, 119, 119, 255>>

ProbePalettes ==
    { <<KitColor(Black), KitColor(White)>>,
      <<KitColor(White), KitColor(Grey)>>,
      <<KitColor(Grey)>>,
      <<KitColor(Light), KitColor(Dim), KitColor(Black)>>,
      DefaultKit.allowedColors }

\* accessibility.minContrast * 10^3
ProbeContrasts == {3000, 4500, 7000}

ProbeKits ==
    { [name |-> "Probe", allowedColors |-> p, allowedFonts |-> <<Arial>>,
       accessibility |-> [minContrast |-> m]] :
        p \in ProbePalettes, m \in ProbeContrasts }

ProbeChildren ==
    [type : {"Text"}, fill : {Grey, Pale, White, Black, Null}, font : {Arial, Verdana}]
      \cup [type : {"Rectangle"}, fill : {Grey, Pale, White, Black, Null}, font : {Null}]

\* an artboard, with or without a fill, and one child
ProbeDocs ==
    { << [id |-> 1, type |-> "ab:Artboard", fill |-> f, font |-> Null, parent |-> 0],
         [id |-> 2, type |-> c.type, fill |-> c.fill, font |-> c.font, parent |-> 1] >> :
        f \in {White, Black, Mid, Null}, c \in ProbeChildren }

CourierNew == <<"C","o","u","r","i","e","r"," ","N","e","w">>

\* the font families of the text nodes whose font is probed
ProbeFonts ==
    { Arial, toLowerCase(Arial), ArialBold, Arial \o <<" ","B","o","l","d">>,
      Arial \o <<"_","I","t","a","l","i","c">>, Arial \o <<"x">>,
      Georgia, Verdana, Courier, CourierNew }

\* a white artboard and one text without a fill
FontDocs ==
    { << [id |-> 1, type |-> "ab:Artboard", fill |-> White, font |-> Null, parent |-> 0],
         [id |-> 2, type |-> "Text", fill |-> Null, font |-> f, parent |-> 1] >> :
        f \in ProbeFonts }

FontKits ==
    { [name |-> "Probe", allowedColors |-> DefaultKit.allowedColors,
       allowedFonts |-> fonts, accessibility |-> [minContrast |-> 4500]] :
        fonts \in { <<Arial>>, <<Courier>>, <<Georgia, Arial>> } }

\* the most elements a scan that is only scored returns
MaxScanned == 12

InitElement ==
    /\ Parked
    /\ probe \in { [op |-> "open", doc |-> d, kit |-> k] :
                     d \in ProbeDocs, k \in ProbeKits }
                 \cup { [op |-> "open", doc |-> d, kit |-> k] :
                          d \in FontDocs, k \in FontKits }
                 \cup UNION { { [op |-> "scanned", total |-> t, bad |-> b] :
                                  b \in 0..t } : t \in 0..MaxScanned }

\* handleAudit on the probe's document: the listing, the warnings, the score
ProbeAudit ==
    /\ probe.op = "open"
    /\ LET results == scanDocument(probe.doc)
           bad     == badElements(results, probe.kit, probe.kit)
       IN  probe' = [op          |-> "audit",
                     doc         |-> probe.doc,
                     kit         |-> probe.kit,
                     elements    |-> results,
                     violations  |-> bad,
                     warnings    |-> unfixableContrastWarnings(results, 1, probe.kit),
                     healthScore |-> Score(Len(results), Len(bad))]
    /\ UNCHANGED <<doc, elements, violations, healthScore, fixAllSnapshot,
                   hasStarted, brandKit, managerKit, activeKitId, calls, lastOp,
                   warned, passKit, hist, failures, running, steps>>

\* determineSuggestedColor for the card of violations[i]
ProbeSuggest(i) ==
    /\ probe.op = "audit"
    /\ i \in 1..Len(probe.violations)
    /\ probe' = [op             |-> "suggest",
                 doc            |-> probe.doc,
                 kit            |-> probe.kit,
                 el             |-> probe.violations[i],
                 suggestedColor |->
                     determineSuggestedColor(probe.violations[i], probe.kit,
                                             probe.kit)]
    /\ UNCHANGED <<doc, elements, violations, healthScore, fixAllSnapshot,
                   hasStarted, brandKit, managerKit, activeKitId, calls, lastOp,
                   warned, passKit, hist, failures, running, steps>>

\* the score handleAudit sets for a scan of total elements, bad of them listed
ProbeScore ==
    /\ probe.op = "scanned"
    /\ probe' = [op |-> "score", total |-> probe.total, bad |-> probe.bad,
                 healthScore |-> Score(probe.total, probe.bad)]
    /\ UNCHANGED <<doc, elements, violations, healthScore, fixAllSnapshot,
                   hasStarted, brandKit, managerKit, activeKitId, calls, lastOp,
                   warned, passKit, hist, failures, running, steps>>

NextElement ==
    \/ ProbeAudit
    \/ ProbeScore
    \/ \E i \in 1..2 : ProbeSuggest(i)

SpecElement == InitElement /\ [][NextElement]_vars

(***************************************************************************)
(* The documents a user uploads, put to validateBrandKit and to            *)
(* uploadBrandKit.                                                          *)
(***************************************************************************)
\* the most entries of allowedColors and of allowedFonts in an upload
MaxColors == 2

MaxFonts == 2

ColorEntries ==
    { JString(<<"#","F","F","F">>), JString(<<"#","f","f","f","f","f","f">>), JString(<<" ","#","d","a","d","a","d","a"," ">>), JString(<<"#","Z","Z","Z","Z","Z","Z">>), JNull }

FontEntries ==
    { JString(Arial), JString(<<" ","a","r","i","a","l"," ">>), JString(<<"P","a","p","y","r","u","s">>) }

\* the arrays of at most n entries
Arrays(entries, n) ==
    UNION { { JArray(a) : a \in [1..k -> entries] } : k \in 0..n }

\* the object with the properties that are not undefined
Document(name, allowedColors, allowedFonts, accessibility, customRules) ==
    LET all == [name |-> name, allowedColors |-> allowedColors,
                allowedFonts |-> allowedFonts, accessibility |-> accessibility,
                customRules |-> customRules]
        present == { k \in DOMAIN all : all[k].t # "undefined" }
    IN  JObject([k \in present |-> all[k]])

UploadDocs ==
    { JNull, JNumber(0), JString(<<"K","i","t">>) }
      \cup { Document(n, c, f, a, x) :
               n \in { JUndefined, JString(<<"K","i","t">>), JString(<<" ">>) },
               c \in { JUndefined, JString(<<"#","f","f","f","f","f","f">>) } \cup Arrays(ColorEntries, MaxColors),
               f \in { JUndefined } \cup Arrays(FontEntries, MaxFonts),
               a \in { JUndefined,
                       JObject([minContrast |-> JNumber(4500)]),
                       JObject([minContrast |-> JNumber(22000)]) },
               x \in { JUndefined, JObject([minBodySize |-> JNumber(12000)]) } }

InitKit ==
    /\ Parked
    /\ probe \in { [op |-> "document", kit |-> d] : d \in UploadDocs }

ProbeValidate ==
    /\ probe.op = "document"
    /\ probe' = [op |-> "validate", kit |-> probe.kit,
                 result |-> validateBrandKit(probe.kit)]
    /\ UNCHANGED <<doc, elements, violations, healthScore, fixAllSnapshot,
                   hasStarted, brandKit, managerKit, activeKitId, calls, lastOp,
                   warned, passKit, hist, failures, running, steps>>

ProbeUpload ==
    /\ probe.op = "document"
    /\ \E storageWrites \in BOOLEAN :
         LET uploaded == uploadBrandKit(probe.kit, storageWrites)
         IN  probe' = [op |-> "upload", kit |-> probe.kit,
                       result |-> uploaded.validation, stored |-> uploaded.stored]
    /\ UNCHANGED <<doc, elements, violations, healthScore, fixAllSnapshot,
                   hasStarted, brandKit, managerKit, activeKitId, calls, lastOp,
                   warned, passKit, hist, failures, running, steps>>

NextKit ==
    \/ ProbeValidate
    \/ ProbeUpload

SpecKit == InitKit /\ [][NextKit]_vars

(***************************************************************************)
(* The colour utilities put to strings of every shape and to pairs of      *)
(* colours under every combination of options.                             *)
(***************************************************************************)
\* the longest string of single digits
MaxDigits == 4

\* the most pairs of digits in a string
MaxPairs == 4

CodecDigits == {"0", "a", "F", "g"}

CodecPairs == { <<"0","0">>, <<"a","B">>, <<"0","F">>, <<"g","0">> }

\* the strings of k pairs
PairStrings(k) ==
    { [i \in 1..(2 * k) |-> p[(i + 1) \div 2][((i - 1) % 2) + 1]] :
        p \in [1..k -> CodecPairs] }

\* digits without prefix: short strings of every length, and strings of an
\* even and of an odd number of digits up to 2 * MaxPairs + 1
CodecBodies ==
    UNION { [1..k -> CodecDigits] : k \in 0..MaxDigits }
      \cup UNION { PairStrings(k) : k \in 3..MaxPairs }
      \cup UNION { { b \o <<"0">> : b \in PairStrings(k) } : k \in 2..MaxPairs }

\* as they reach toHex6: bare, with '#', and with white space around
CodecInputs ==
    UNION { { b, <<"#">> \o b, <<" ", "#">> \o b \o <<" ">> } : b \in CodecBodies }

\* the colours whose contrast is taken
ContrastColors == { KitColor(c) : c \in {White, Black, Grey, Pale, Light, Dim, Mid} }

\* every combination of the three optional flags
AllOptions ==
    [largeText : BOOLEAN, nonText : BOOLEAN, reportAAA : BOOLEAN]

InitCodec ==
    /\ Parked
    /\ probe \in { [op |-> "input", hex |-> x] : x \in CodecInputs }
                 \cup { [op |-> "colors", hex1 |-> a, hex2 |-> b, options |-> o] :
                          a \in ContrastColors, b \in ContrastColors,
                          o \in AllOptions }

\* toHex6 of the input, and of its own result when there is one
ProbeNormalize ==
    /\ probe.op = "input"
    /\ LET color == toHex6(probe.hex)
       IN  probe' = [op |-> "normalize", hex |-> probe.hex, color |-> color,
                     again |-> IF color = Null THEN Null ELSE toHex6(color)]
    /\ UNCHANGED <<doc, elements, violations, healthScore, fixAllSnapshot,
                   hasStarted, brandKit, managerKit, activeKitId, calls, lastOp,
                   warned, passKit, hist, failures, running, steps>>

ProbeContrast ==
    /\ probe.op = "colors"
    /\ probe' = [op |-> "contrast", options |-> probe.options,
                 result |-> calculateContrastRatio(probe.hex1, probe.hex2,
                                                   probe.options)]
    /\ UNCHANGED <<doc, elements, violations, healthScore, fixAllSnapshot,
                   hasStarted, brandKit, managerKit, activeKitId, calls, lastOp,
                   warned, passKit, hist, failures, running, steps>>

NextCodec ==
    \/ ProbeNormalize
    \/ ProbeContrast

SpecCodec == InitCodec /\ [][NextCodec]_vars

(***************************************************************************)
(* The fonts a brand kit may name, applied to a text node through the      *)
(* provider.                                                               *)
(***************************************************************************)
InitFont ==
    /\ Parked
    /\ probe \in { [op |-> "font", doc |-> d, fontFamily |-> f] :
                     d \in FontDocs, f \in AVAILABLE_FONTS }

\* fixFont(2, fontFamily); sdkApplies is whether the SDK resolves a
\* PostScript name it is asked for and accepts the edit
ProbeFixFont ==
    /\ probe.op = "font"
    /\ \E sdkApplies \in BOOLEAN :
         LET fixed == fixFont(probe.doc, 2, probe.fontFamily, sdkApplies)
         IN  probe' = [op |-> "fixFont", fontFamily |-> probe.fontFamily,
                       sdkApplies |-> sdkApplies, ok |-> fixed.ok,
                       doc |-> fixed.doc]
    /\ UNCHANGED <<doc, elements, violations, healthScore, fixAllSnapshot,
                   hasStarted, brandKit, managerKit, activeKitId, calls, lastOp,
                   warned, passKit, hist, failures, running, steps>>

ProbeRestoreFont ==
    /\ probe.op = "font"
    /\ \E sdkApplies \in BOOLEAN :
         LET restored == restoreFont(probe.doc, 2, probe.fontFamily, sdkApplies)
         IN  probe' = [op |-> "restoreFont", fontFamily |-> probe.fontFamily,
                       sdkApplies |-> sdkApplies, ok |-> restored.ok,
                       doc |-> restored.doc]
    /\ UNCHANGED <<doc, elements, violations, healthScore, fixAllSnapshot,
                   hasStarted, brandKit, managerKit, activeKitId, calls, lastOp,
                   warned, passKit, hist, failures, running, steps>>

NextFont ==
    \/ ProbeFixFont
    \/ ProbeRestoreFont

SpecFont == InitFont /\ [][NextFont]_vars

(***************************************************************************)
(* Rounds of audit and fix under one kit, every provider call succeeding.  *)
(* probe.op is where the user or handleFix stands: "open" and "reaudit"    *)
(* before an audit, "audit" at the listing, "color" and "font" before the  *)
(* two provider calls of handleFix.  probe.seen holds the documents whose  *)
(* listing the user has already worked on.                                 *)
(***************************************************************************)
\* the state of App over a document with nothing audited
Opened(document) ==
    [doc |-> document, elements |-> <<>>, violations |-> <<>>,
     healthScore |-> 100, calls |-> <<>>]

InitRounds ==
    /\ Parked
    /\ probe \in { [op |-> "open", doc |-> d, kit |-> k, seen |-> {}] :
                     d \in ProbeDocs, k \in ProbeKits }
                 \cup { [op |-> "open", doc |-> d, kit |-> k, seen |-> {}] :
                          d \in FontDocs, k \in FontKits }

\* handleAudit of the document as it is
RoundAudit ==
    /\ probe.op \in {"open", "reaudit"}
    /\ probe' = [op |-> "audit", doc |-> probe.doc, kit |-> probe.kit,
                 seen |-> probe.seen,
                 violations |->
                     handleAudit(Opened(probe.doc), probe.kit, probe.kit).violations]
    /\ UNCHANGED <<doc, elements, violations, healthScore, fixAllSnapshot,
                   hasStarted, brandKit, managerKit, activeKitId, calls, lastOp,
                   warned, passKit, hist, failures, running, steps>>

\* the user fixes every card of the listing, one after the other: batch is
\* the listing, i the card whose handleFix runs
RoundFix ==
    /\ probe.op = "audit"
    /\ probe.violations # <<>>
    /\ probe' = [op |-> "color", doc |-> probe.doc, kit |-> probe.kit,
                 seen |-> probe.seen \cup {probe.doc},
                 batch |-> probe.violations, i |-> 1]
    /\ UNCHANGED <<doc, elements, violations, healthScore, fixAllSnapshot,
                   hasStarted, brandKit, managerKit, activeKitId, calls, lastOp,
                   warned, passKit, hist, failures, running, steps>>

\* if (suggestedColor) await sandboxProxy.fixColor(el.id, suggestedColor)
RoundColor ==
    /\ probe.op = "color"
    /\ LET el == probe.batch[probe.i]
           suggestedColor == determineSuggestedColor(el, probe.kit, probe.kit)
       IN  probe' = [probe EXCEPT
                       !.op  = "font",
                       !.doc = IF suggestedColor = Null THEN @
                               ELSE fixColor(@, el.id, suggestedColor, TRUE).doc]
    /\ UNCHANGED <<doc, elements, violations, healthScore, fixAllSnapshot,
                   hasStarted, brandKit, managerKit, activeKitId, calls, lastOp,
                   warned, passKit, hist, failures, running, steps>>

\* if (needsFontFix && suggestedFont) the fixFont call, then the next card;
\* after the last card the listing is that of a new audit
RoundFont ==
    /\ probe.op = "font"
    /\ LET el == probe.batch[probe.i]
           needsFontFix == el.fontName # Null
                             /\ ~isFontAllowed(el.fontName, probe.kit.allowedFonts)
           fonted == fixFont(probe.doc, el.id, probe.kit.allowedFonts[1], TRUE)
           fixed  == IF needsFontFix THEN fonted.doc ELSE probe.doc
       IN  probe' = IF probe.i < Len(probe.batch)
                    THEN [probe EXCEPT !.op = "color", !.doc = fixed, !.i = @ + 1]
                    ELSE [op |-> "reaudit", kit |-> probe.kit, seen |-> probe.seen,
                          doc |-> fixed]
    /\ UNCHANGED <<doc, elements, violations, healthScore, fixAllSnapshot,
                   hasStarted, brandKit, managerKit, activeKitId, calls, lastOp,
                   warned, passKit, hist, failures, running, steps>>

NextRounds ==
    \/ RoundAudit
    \/ RoundFix
    \/ RoundColor
    \/ RoundFont

\* the user keeps going as long as a violation is listed
SpecRounds == InitRounds /\ [][NextRounds]_vars /\ WF_vars(NextRounds)

(***************************************************************************)
(* BrandKitManager: the registry and the kits in localStorage, the cached  *)
(* kit, and the loads that wait for the fetch of the default file.  A kit  *)
(* is named by its id; "none" is the empty cache.  probe holds:            *)
(*   registry     the ids of the registry entries, in order                *)
(*   stored       the ids whose kit data is in localStorage                *)
(*   activeId     the value under ACTIVE_KIT_ID_KEY                        *)
(*   cache        this.brandKit                                            *)
(*   pending      the loadBrandKit calls awaiting fetch: those of          *)
(*                setActiveKit, which notify when they resume, and plain   *)
(*                ones                                                     *)
(*   shown        the kit the listeners read at the last notification      *)
(*   result       what the last call returned                              *)
(***************************************************************************)
\* the most kits a user uploads
MaxKits == 2

\* the most loads awaiting a fetch at one time
MaxPending == 2

KitName(n) == IF n = 1 THEN "kit_1" ELSE IF n = 2 THEN "kit_2" ELSE "kit_3"

\* loadKitById: the kit stored under the id, "none" when there is none
loadKitById(m, kitId) == IF kitId \in m.stored THEN kitId ELSE "none"

\* loadBrandKit up to its first await: the cached kit, the kit of the
\* active id, or a fetch of the default file; notify tells whether the
\* caller notifies the listeners when the load resumes
loadBrandKit(m, notify) ==
    IF m.cache # "none" THEN m
    ELSE IF m.activeId # "default" /\ loadKitById(m, m.activeId) # "none"
    THEN [m EXCEPT !.cache = loadKitById(m, m.activeId)]
    ELSE [m EXCEPT !.pending = Append(@, notify)]

\* setActiveKit up to its first await; a load that did not wait resumes in
\* the same turn of the event loop and notifies
setActiveKit(m, kitId) ==
    LET cleared == [m EXCEPT !.activeId = kitId, !.cache = "none"]
        loaded  == loadBrandKit(cleared, TRUE)
    IN  IF loaded.cache # "none" THEN [loaded EXCEPT !.shown = loaded.cache]
        ELSE loaded

\* addBrandKit(kit, true); each of the three writes to localStorage either
\* succeeds or throws.  saveRegistry swallows its failure, the other two
\* leave addBrandKit by the exception.
addBrandKit(m, kitId, registryWrites, kitWrites, activeWrites) ==
    LET m1 == IF registryWrites THEN [m EXCEPT !.registry = Append(@, kitId)] ELSE m
        m2 == [m1 EXCEPT !.stored = @ \cup {kitId}]
    IN  IF ~kitWrites THEN [m1 EXCEPT !.result = "throws"]
        ELSE IF ~activeWrites THEN [m2 EXCEPT !.result = "throws"]
        ELSE [m2 EXCEPT !.activeId = kitId, !.cache = kitId, !.shown = kitId,
                        !.result = kitId]

\* uploadBrandKit of a valid kit
uploadValidKit(m, kitId, registryWrites, kitWrites, activeWrites) ==
    LET added == addBrandKit(m, kitId, registryWrites, kitWrites, activeWrites)
    IN  [added EXCEPT !.result = IF added.result = "throws" THEN "storage"
                                 ELSE "valid"]

\* the manager of a first start: nothing stored, nothing cached
InitManager ==
    /\ Parked
    /\ probe = [op |-> "manager", registry |-> <<"default">>, stored |-> {},
                activeId |-> "default", cache |-> "none", pending |-> <<>>,
                shown |-> "none", result |-> "none", uploads |-> 0]

\* a component mounts and calls loadBrandKit()
Load ==
    /\ probe.op = "manager"
    /\ Len(probe.pending) < MaxPending
    /\ probe' = [loadBrandKit(probe, FALSE) EXCEPT !.result = "none"]
    /\ UNCHANGED <<doc, elements, violations, healthScore, fixAllSnapshot,
                   hasStarted, brandKit, managerKit, activeKitId, calls, lastOp,
                   warned, passKit, hist, failures, running, steps>>

\* the user picks an entry of the registry
PickKit(kitId) ==
    /\ probe.op = "manager"
    /\ Len(probe.pending) < MaxPending
    /\ \E e \in 1..Len(probe.registry) : probe.registry[e] = kitId
    /\ probe' = [setActiveKit(probe, kitId) EXCEPT !.result = "none"]
    /\ UNCHANGED <<doc, elements, violations, healthScore, fixAllSnapshot,
                   hasStarted, brandKit, managerKit, activeKitId, calls, lastOp,
                   warned, passKit, hist, failures, running, steps>>

\* the user uploads a valid kit
Upload ==
    /\ probe.op = "manager"
    /\ probe.uploads < MaxKits
    /\ \E registryWrites \in BOOLEAN, kitWrites \in BOOLEAN, activeWrites \in BOOLEAN :
         probe' = [uploadValidKit(probe, KitName(probe.uploads + 1),
                                  registryWrites, kitWrites, activeWrites)
                     EXCEPT !.uploads = @ + 1]
    /\ UNCHANGED <<doc, elements, violations, healthScore, fixAllSnapshot,
                   hasStarted, brandKit, managerKit, activeKitId, calls, lastOp,
                   warned, passKit, hist, failures, running, steps>>

\* the fetch of the k-th waiting load answers (the file or, failing that,
\* the hardcoded default): this.brandKit is assigned and the load resumes
FetchDone(k) ==
    /\ probe.op = "manager"
    /\ k \in 1..Len(probe.pending)
    /\ probe' = [probe EXCEPT
                   !.cache   = "default",
                   !.shown   = IF probe.pending[k] THEN "default" ELSE @,
                   !.pending = SubSeq(@, 1, k - 1) \o SubSeq(@, k + 1, Len(@)),
                   !.result  = "none"]
    /\ UNCHANGED <<doc, elements, violations, healthScore, fixAllSnapshot,
                   hasStarted, brandKit, managerKit, activeKitId, calls, lastOp,
                   warned, passKit, hist, failures, running, steps>>

NextManager ==
    \/ Load
    \/ \E kitId \in {"default", "kit_1", "kit_2", "kit_3"} : PickKit(kitId)
    \/ Upload
    \/ \E k \in 1..(MaxPending + 1) : FetchDone(k)

SpecManager == InitManager /\ [][NextManager]_vars

(***************************************************************************)
(* Properties of the snapshot of Fix All and Undo All                      *)
(***************************************************************************)
\* the step taken is one run of the handler op
IsStep(op) == lastOp' = op /\ steps' = steps + 1

\* every node of entries has in document d the fill and the font it has in pre
Restored(d, pre, entries) ==
    \A i \in 1..Len(entries) :
        LET t == findById(d, entries[i].id)
            p == findById(pre, entries[i].id)
        IN  /\ t # 0
            /\ p # 0
            /\ d[t].fill = pre[p].fill
            /\ d[t].font = pre[p].font

\* the ids of the nodes the calls named fn were made for, in call order
CalledFor(fn, log) ==
    LET IsFn(c) == c[1] = fn
        picked  == SelectSeq(log, IsFn)
    IN  [i \in 1..Len(picked) |-> picked[i][2]]

\* C1: an Undo All that directly follows the Fix All that captured the live
\* snapshot, with no call failed by the SDK in either, puts every element of
\* the batch back to the fill and the font it had just before the batch and
\* leaves no live snapshot.
C1_RoundTrip ==
    [][ ( /\ IsStep("undoAll")
          /\ fixAllSnapshot.live
          /\ hist.chain = "batch"
          /\ hist.clean
          /\ FailedCalls(calls') = 0 )
        => ( /\ ~fixAllSnapshot'.live
             /\ Restored(doc', hist.pre, fixAllSnapshot.entries) ) ]_vars

\* C2: a live snapshot is the one captured just before the most recent
\* Fix All batch that changed the document; batches that changed nothing
\* never replace it.
C2_SnapshotOfLastChangingBatch ==
    fixAllSnapshot.live => fixAllSnapshot = hist.changing

\* C3: a Fix All run with a live snapshot and nothing listed to fix leaves
\* the snapshot and the document as they are, and an Undo All after it (no
\* call failed by the SDK) still restores the state from before the batch
\* that captured the snapshot.
C3_NoopBatchKeepsUndo ==
    [][ /\ ( IsStep("fixAll") /\ fixAllSnapshot.live /\ Len(violations) = 0 )
           => ( fixAllSnapshot' = fixAllSnapshot /\ doc' = doc )
        /\ ( /\ IsStep("undoAll")
             /\ fixAllSnapshot.live
             /\ hist.chain = "noop"
             /\ hist.clean
             /\ FailedCalls(calls') = 0 )
           => ( /\ ~fixAllSnapshot'.live
                /\ Restored(doc', hist.pre, fixAllSnapshot.entries) ) ]_vars

\* C4: an Undo All run while no snapshot is live issues no provider call,
\* changes no element, no listing and no snapshot, and logs the warning.
C4_UndoIdleIsNoop ==
    [][ ( IsStep("undoAll") /\ ~fixAllSnapshot.live )
        => ( /\ calls' = <<>>
             /\ warned'
             /\ UNCHANGED <<doc, elements, violations, healthScore,
                            fixAllSnapshot>> ) ]_vars

\* an Undo All has just run while idle
C4_Witness ==
    lastOp = "undoAll" /\ warned /\ ~fixAllSnapshot.live /\ hasStarted

\* C5: in a Fix All batch the fix is attempted for every listed element, in
\* the order of the listing, whatever the SDK does with the calls of the
\* elements before it (apply returning false, or the call rejecting).
C5_BatchContinuesAfterFailure ==
    [][ IsStep("fixAll")
        => CalledFor("fixColor", calls') =
             [i \in 1..Len(violations) |-> violations[i].id] ]_vars

\* a batch whose first element's call rejected and whose second element was
\* still attempted
C5_Witness ==
    /\ lastOp = "fixAll"
    /\ Len(fixAllSnapshot.entries) >= 2
    /\ Len(calls) >= 2
    /\ calls[1][1] = "fixColor"
    /\ calls[1][2] = fixAllSnapshot.entries[1].id
    /\ calls[1][4] = "rejected"
    /\ \E i \in 2..Len(calls) :
         calls[i][1] = "fixColor" /\ calls[i][2] = fixAllSnapshot.entries[2].id

\* C6: audit, Fix All and Undo All are serialized: no handler is started
\* while another one still awaits the Document Provider.
C6_Serialized == Len(running) <= 1

(***************************************************************************)
(* Properties of the audit pass and of the violation cards                 *)
(***************************************************************************)
\* the listing on screen was made under the kit that is active now
ListedUnderActiveKit == passKit = brandKit /\ brandKit = managerKit

\* C7: the listing of an audit pass is the one the three checks give when
\* all of them read the brand kit the pass captured when it started.
C7_OneKitPerPass ==
    hasStarted => violations = badElements(elements, passKit, passKit)

\* C8: the primary kind of a card is contrast if the element has a contrast
\* violation, else font if it has a font violation, else color, and it is
\* one of the rules the element breaks.
C8_PrimaryKind ==
    ListedUnderActiveKit =>
      \A i \in 1..Len(violations) :
        LET el == violations[i]
            broken ==
              (IF AuditColorViolation(el, brandKit) THEN {"color"} ELSE {})
                \cup (IF AuditContrastViolation(el, brandKit) THEN {"contrast"} ELSE {})
                \cup (IF AuditFontViolation(el, managerKit) THEN {"font"} ELSE {})
            primary == primaryViolationType(el, brandKit, managerKit)
        IN  /\ primary = ( IF "contrast" \in broken THEN "contrast"
                           ELSE IF "font" \in broken THEN "font"
                           ELSE "color" )
            /\ primary \in broken

\* C9: no fill, no palette or contrast violation; no font, no font
\* violation; no flagged check, not listed.  For the audit's listing and for
\* the reasons of each card.
C9_AbsentAttributeNotReported ==
    ListedUnderActiveKit =>
      /\ \A i \in 1..Len(elements) :
           LET el == elements[i] IN
           /\ el.fillColor = Null =>
                ~AuditColorViolation(el, brandKit) /\ ~AuditContrastViolation(el, brandKit)
           /\ el.fontName = Null => ~AuditFontViolation(el, managerKit)
           /\ ~hasSomeViolation(el, brandKit, managerKit) =>
                \A j \in 1..Len(violations) : violations[j] # el
      /\ \A j \in 1..Len(violations) :
           LET el == violations[j]
               reasons == CardReasons(el, brandKit, managerKit)
           IN  /\ el.fillColor = Null => reasons \cap {"color", "contrast"} = {}
               /\ el.fontName = Null => "font" \notin reasons

\* C10: an element whose fill is in the palette and fails the contrast check
\* is reported for contrast, by the audit and by its card, exactly when
\* another allowed colour reaches the required ratio against its background
\* or beats the element's ratio by more than 0.5.
C10_ContrastSuppression ==
    ListedUnderActiveKit =>
      \A i \in 1..Len(elements) :
        LET el            == elements[i]
            currentHex    == toHex6(el.fillColor)
            bgHex         == toHex6(el.containerFillColor)
            isTextElement == el.type = "Text"
            listed        == \E j \in 1..Len(violations) : violations[j] = el
        IN  ( /\ currentHex # Null
              /\ bgHex # Null
              /\ IsBrandCompliant(currentHex, brandKit)
              /\ ~IsContrastCompliant(currentHex, bgHex, isTextElement, brandKit) )
            => LET better == hasBetterBrandColor(currentHex, bgHex,
                                                 isTextElement, brandKit)
               IN  /\ AuditContrastViolation(el, brandKit) <=> better
                   /\ listed =>
                        ( "contrast" \in CardReasons(el, brandKit, managerKit)
                            <=> better )

(***************************************************************************)
(* Properties of the required ratio, the suggestions and the warnings      *)
(***************************************************************************)
\* the ratio the AA/AAA selection asks of an element: AAA when
\* minContrast >= 7.0, the large-text floor when the element is text
SelectedRatio(isTextElement, kit) ==
    IF kit.accessibility.minContrast >= 7000
    THEN (IF isTextElement THEN 4500 ELSE 7000)
    ELSE (IF isTextElement THEN 3000 ELSE 4500)

\* the ratio the contrast check holds the element's fill to
AppliedRatio(currentHex, bgHex, isTextElement, kit) ==
    LET isAAA == kit.accessibility.minContrast >= 7000
        contrastResult ==
            calculateContrastRatio(currentHex, bgHex, Options(isTextElement, isAAA))
    IN  IF isAAA THEN contrastResult.requiredAAA ELSE contrastResult.requiredAA

\* C11: for every element kind and every minContrast, the ratio the contrast
\* check applies, the ratio the safe list is built with and the ratio that
\* decides unfixability are one value: the AA/AAA selection, with the
\* large-text floor exactly for text.
C11_OneRequiredRatio ==
    probe.op = "audit" =>
      /\ \A i \in 1..Len(probe.elements) :
           LET el            == probe.elements[i]
               currentHex    == toHex6(el.fillColor)
               bgHex         == toHex6(el.containerFillColor)
               isTextElement == el.type = "Text"
               selected      == SelectedRatio(isTextElement, probe.kit)
           IN  (currentHex # Null /\ bgHex # Null) =>
                 /\ AppliedRatio(currentHex, bgHex, isTextElement, probe.kit) = selected
                 /\ RequiredContrast(isTextElement, probe.kit) = selected
      /\ \A j \in 1..Len(probe.warnings) :
           probe.warnings[j].requiredRatio
             = SelectedRatio(probe.warnings[j].element.type = "Text", probe.kit)

\* the allowed colours other than currentHex, as positions in the kit's list
OtherColors(currentHex, kit) ==
    { k \in 1..Len(kit.allowedColors) :
        /\ toHex6(kit.allowedColors[k]) # Null
        /\ toHex6(kit.allowedColors[k]) # currentHex }

\* the contrast ratio of the kit's colour k against bgHex
RatioOf(k, bgHex, kit) ==
    calculateContrastRatio(toHex6(kit.allowedColors[k]), bgHex,
                           Options(FALSE, FALSE)).ratio

\* C12: for an element with a contrast violation and a known background the
\* suggestion is a member of the safe list (allowed colours other than the
\* current one that reach the required ratio against the background) that
\* is nearest in RGB distance to the current colour; when the safe list is
\* empty it is an allowed colour other than the current one of the highest
\* ratio against the background.
C12_SafeListNearest ==
    probe.op = "suggest" =>
      LET el            == probe.el
          kit           == probe.kit
          currentHex    == toHex6(el.fillColor)
          bgHex         == toHex6(el.containerFillColor)
          isTextElement == el.type = "Text"
          others        == OtherColors(currentHex, kit)
          safe          == { k \in others :
                               RatioOf(k, bgHex, kit)
                                 >= SelectedRatio(isTextElement, kit) }
      IN  ( AuditContrastViolation(el, kit) /\ others # {} ) =>
            IF safe # {}
            THEN \E k \in safe :
                    /\ probe.suggestedColor = kit.allowedColors[k]
                    /\ \A j \in safe :
                         colorDistance(kit.allowedColors[k], currentHex)
                           <= colorDistance(kit.allowedColors[j], currentHex)
            ELSE \E k \in others :
                    /\ probe.suggestedColor = kit.allowedColors[k]
                    /\ \A j \in others :
                         RatioOf(k, bgHex, kit) >= RatioOf(j, bgHex, kit)

\* C13: for an element without a contrast violation (fill or background
\* unknown, or contrast compliant) the suggestion is a colour of the kit's
\* list, no colour of the list is nearer in RGB distance to the current
\* fill, and every colour that comes before it in the list is farther.
C13_NearestAllowed ==
    probe.op = "suggest" =>
      LET el            == probe.el
          kit           == probe.kit
          currentHex    == toHex6(el.fillColor)
          bgHex         == toHex6(el.containerFillColor)
          isTextElement == el.type = "Text"
      IN  ( \/ currentHex = Null
            \/ bgHex = Null
            \/ IsContrastCompliant(currentHex, bgHex, isTextElement, kit) ) =>
            \E k \in 1..Len(kit.allowedColors) :
              /\ probe.suggestedColor = kit.allowedColors[k]
              /\ currentHex # Null =>
                   /\ \A j \in 1..Len(kit.allowedColors) :
                        colorDistance(kit.allowedColors[k], currentHex)
                          <= colorDistance(kit.allowedColors[j], currentHex)
                   /\ \A j \in 1..(k - 1) :
                        colorDistance(kit.allowedColors[k], currentHex)
                          < colorDistance(kit.allowedColors[j], currentHex)

\* a suggestion for a contrast-compliant fill that two colours of the list
\* are equally near to: the first of the two is suggested
C13_Witness ==
    /\ probe.op = "suggest"
    /\ toHex6(probe.el.fillColor) # Null
    /\ toHex6(probe.el.containerFillColor) # Null
    /\ IsContrastCompliant(toHex6(probe.el.fillColor),
                           toHex6(probe.el.containerFillColor),
                           probe.el.type = "Text", probe.kit)
    /\ Len(probe.kit.allowedColors) >= 2
    /\ probe.suggestedColor = probe.kit.allowedColors[1]
    /\ colorDistance(probe.kit.allowedColors[1], toHex6(probe.el.fillColor))
         = colorDistance(probe.kit.allowedColors[2], toHex6(probe.el.fillColor))

\* the highest contrast ratio a colour of the kit reaches against bgHex
MaxRatio(bgHex, kit) ==
    LET ratios == { RatioOf(k, bgHex, kit) : k \in 1..Len(kit.allowedColors) }
    IN  CHOOSE r \in ratios : \A q \in ratios : q <= r

\* C14: the audit records an unfixable finding for an element exactly when
\* its fill is in the palette, its contrast check fails and the highest
\* ratio any allowed colour reaches against its background is below the
\* required ratio; the finding's best colour reaches that highest ratio and
\* isCurrentBest says whether the current colour is that best colour.
C14_UnfixableFindings ==
    probe.op = "audit" =>
      /\ \A i \in 1..Len(probe.elements) :
           LET el            == probe.elements[i]
               kit           == probe.kit
               currentHex    == toHex6(el.fillColor)
               bgHex         == toHex6(el.containerFillColor)
               isTextElement == el.type = "Text"
           IN  ( \E j \in 1..Len(probe.warnings) : probe.warnings[j].element = el )
                 <=> ( /\ currentHex # Null
                       /\ bgHex # Null
                       /\ IsBrandCompliant(currentHex, kit)
                       /\ ~IsContrastCompliant(currentHex, bgHex, isTextElement, kit)
                       /\ MaxRatio(bgHex, kit) < SelectedRatio(isTextElement, kit) )
      /\ \A j \in 1..Len(probe.warnings) :
           LET w          == probe.warnings[j]
               currentHex == toHex6(w.element.fillColor)
               bgHex      == toHex6(w.element.containerFillColor)
           IN  /\ w.bestPossibleRatio = MaxRatio(bgHex, probe.kit)
               /\ calculateContrastRatio(toHex6(w.bestBrandColor), bgHex,
                                         Options(FALSE, FALSE)).ratio
                    = MaxRatio(bgHex, probe.kit)
               /\ w.isCurrentBest <=> toHex6(w.bestBrandColor) = currentHex
               /\ Len(probe.kit.allowedColors) = 1 => w.isCurrentBest

\* score is (total - bad) / total * 100 rounded to the nearest integer, a
\* half rounded up; 100 when total is 0
IsRounded(score, total, bad) ==
    /\ score \in 0..100
    /\ IF total = 0 THEN score = 100
       ELSE /\ 2 * total * score - 200 * (total - bad) > -total
            /\ 2 * total * score - 200 * (total - bad) <= total

\* C15: after an audit the health score is round((total - violating) / total
\* * 100) for the total scanned elements and the listed ones, 100 when
\* nothing is scanned; it is an integer in 0..100, and 70 for 10 elements of
\* which 3 are listed.
C15_HealthScore ==
    /\ probe.op = "audit" =>
         IsRounded(probe.healthScore, Len(probe.elements), Len(probe.violations))
    /\ probe.op = "score" =>
         /\ IsRounded(probe.healthScore, probe.total, probe.bad)
         /\ (probe.total = 10 /\ probe.bad = 3) => probe.healthScore = 70

\* 3 of 10 scanned elements are listed and the score is set
C15_Witness ==
    probe.op = "score" /\ probe.total = 10 /\ probe.bad = 3 /\ probe.healthScore = 70

\* the words that name a style of a font family, as in 'Arial Bold'
StyleWords ==
    { <<"b","o","l","d">>, <<"i","t","a","l","i","c">>,
      <<"r","e","g","u","l","a","r">>, <<"l","i","g","h","t">> }

\* fontName is allowed, or an allowed font with a separator and a style word
IsStyleVariant(fontName, allowedFonts) ==
    \E i \in 1..Len(allowedFonts) :
        \/ toLowerCase(fontName) = toLowerCase(allowedFonts[i])
        \/ \E sep \in {" ", "-", "_"}, word \in StyleWords :
             toLowerCase(fontName) = toLowerCase(allowedFonts[i]) \o <<sep>> \o word

\* C16: the font check passes exactly when the element's font, compared
\* without regard to case, equals an allowed font or is an allowed font
\* followed by ' ', '-' or '_' and a style word; a font that is neither is
\* listed as a font violation.
C16_FontCheck ==
    probe.op = "audit" =>
      \A i \in 1..Len(probe.elements) :
        LET el == probe.elements[i] IN
        el.fontName # Null =>
          /\ isFontAllowed(el.fontName, probe.kit.allowedFonts)
               <=> IsStyleVariant(el.fontName, probe.kit.allowedFonts)
          /\ ~IsStyleVariant(el.fontName, probe.kit.allowedFonts) =>
               /\ AuditFontViolation(el, probe.kit)
               /\ \E j \in 1..Len(probe.violations) : probe.violations[j] = el

(***************************************************************************)
(* Properties of the validation and the upload of a brand kit             *)
(***************************************************************************)
\* C17: validate never throws, and for malformed input (a value that is
\* not an object, and the empty document {}) it returns valid = false with
\* an error on the field 'root'.
C17_RootError ==
    ( /\ probe.op = "validate"
      /\ probe.kit.t # "object" \/ DOMAIN probe.kit.o = {} ) =>
        /\ ~probe.result.valid
        /\ \E i \in 1..Len(probe.result.errors) :
             probe.result.errors[i].field = "root"

\* the rule groups in the order of their fields, with the property each reads
Groups == <<"name", "allowedColors", "allowedFonts", "accessibility">>

GroupOf(field) ==
    IF field = "accessibility.minContrast" THEN 4
    ELSE CHOOSE g \in 1..4 : Groups[g] = field

\* the errors of group g, in the order they are returned
GroupErrors(errors, g) ==
    LET InGroup(e) == GroupOf(e.field) = g
    IN  SelectSeq(errors, InGroup)

\* a document that passes every rule group
GoodDocument ==
    Document(JString(<<"K","i","t">>), JArray(<< JString(<<"#","F","F","F","F","F","F">>) >>),
             JArray(<< JString(Arial) >>),
             JObject([minContrast |-> JNumber(4500)]), JUndefined)

\* kit with every property but that of group g removed
Alone(kit, g) ==
    JObject([k \in DOMAIN kit.o \cap {Groups[g]} |-> kit.o[k]])

\* the good document with the property of group g as kit has it
Among(kit, g) ==
    JObject([k \in (DOMAIN GoodDocument.o \ {Groups[g]})
                      \cup (DOMAIN kit.o \cap {Groups[g]}) |->
                IF k = Groups[g] THEN kit.o[k] ELSE GoodDocument.o[k]])

\* C18: the four rule groups are evaluated independently: the errors of a
\* group are the same whether the other groups fail or pass, all errors are
\* returned in the order name, allowedColors, allowedFonts,
\* accessibility.minContrast, and valid is true exactly when no error is
\* returned.
C18_IndependentGroups ==
    ( probe.op = "validate" /\ probe.kit.t = "object" ) =>
      LET errors == probe.result.errors IN
      /\ \A g \in 1..4 :
           /\ GroupErrors(errors, g)
                = GroupErrors(validateBrandKit(Alone(probe.kit, g)).errors, g)
           /\ GroupErrors(errors, g)
                = GroupErrors(validateBrandKit(Among(probe.kit, g)).errors, g)
      /\ \A i \in 1..Len(errors) : errors[i].field # "root"
      /\ \A i \in 1..Len(errors) : \A j \in (i + 1)..Len(errors) :
           /\ GroupOf(errors[i].field) <= GroupOf(errors[j].field)
           /\ GroupOf(errors[i].field) = GroupOf(errors[j].field) =>
                errors[i].index < errors[j].index
      /\ probe.result.valid <=> errors = <<>>

\* a validation that reports errors of all four groups
C18_Witness ==
    /\ probe.op = "validate"
    /\ probe.kit.t = "object"
    /\ ~probe.result.valid
    /\ \A g \in 1..4 : GroupErrors(probe.result.errors, g) # <<>>
    /\ \E i \in 1..Len(probe.result.errors) : probe.result.errors[i].index > 0

\* a string that reads "#" and 3 or 6 hex digits once trimmed
IsColorString(x) ==
    /\ x.t = "string"
    /\ LET t == trim(x.s) IN
       /\ Len(t) \in {4, 7}
       /\ t[1] = "#"
       /\ IsHexString(Tail(t))

\* the 6-digit upper-case value of such a string
SixDigits(x) ==
    LET t == toUpperCase(trim(x.s)) IN
    IF Len(t) = 4 THEN <<"#", t[2], t[2], t[3], t[3], t[4], t[4]>> ELSE t

\* the indices before j whose entry has the 6-digit value of entry j
EarlierSame(colors, j) ==
    { i \in 0..(j - 1) :
        /\ IsColorString(colors[i + 1])
        /\ IsColorString(colors[j + 1])
        /\ SixDigits(colors[i + 1]) = SixDigits(colors[j + 1]) }

\* the places in errors of the duplicate errors on allowedColors[j]
DuplicatesAt(errors, j) ==
    { e \in 1..Len(errors) :
        /\ errors[e].field = "allowedColors"
        /\ errors[e].index = j
        /\ errors[e].reason = "duplicate" }

\* C19: when two entries of allowedColors at indices i < j normalize to the
\* same 6-digit value, validate reports exactly one duplicate error on
\* allowedColors[j], which refers to the earlier index i; an entry with no
\* earlier equal, the one at i among them, gets no duplicate error.
C19_DuplicateColor ==
    ( /\ probe.op = "validate"
      /\ probe.kit.t = "object"
      /\ Prop(probe.kit, "allowedColors").t = "array" ) =>
        LET colors == Prop(probe.kit, "allowedColors").a
            errors == probe.result.errors
        IN  \A j \in 0..(Len(colors) - 1) :
              LET earlier == EarlierSame(colors, j) IN
              IF earlier = {}
              THEN DuplicatesAt(errors, j) = {}
              ELSE /\ Cardinality(DuplicatesAt(errors, j)) = 1
                   /\ \A e \in DuplicatesAt(errors, j) :
                        /\ errors[e].position \in earlier
                        /\ \A i \in earlier : errors[e].position <= i

\* '#FFF' then '#ffffff': one duplicate error, on the second, naming the first
C19_Witness ==
    /\ probe.op = "validate"
    /\ probe.kit.t = "object"
    /\ Prop(probe.kit, "allowedColors") =
          JArray(<< JString(<<"#","F","F","F">>),
                    JString(<<"#","f","f","f","f","f","f">>) >>)
    /\ \E e \in 1..Len(probe.result.errors) :
          probe.result.errors[e] = ValidationError("allowedColors", 1, "duplicate", 0)

\* no white space at either end
IsTrimmed(str) == trim(str) = str

\* C20: the kit stored and activated for a valid uploaded document has every
\* allowed colour in upper-case 6-digit form, 3-digit colours expanded, every
\* font trimmed, and the extended fields as the document has them.
C20_StoredNormalized ==
    ( probe.op = "upload" /\ probe.stored # Null ) =>
        LET colors == Prop(probe.kit, "allowedColors").a
            fonts  == Prop(probe.kit, "allowedFonts").a
        IN  /\ Len(probe.stored.allowedColors) = Len(colors)
            /\ \A i \in 1..Len(colors) :
                 /\ Len(probe.stored.allowedColors[i]) = 7
                 /\ probe.stored.allowedColors[i] = SixDigits(colors[i])
            /\ Len(probe.stored.allowedFonts) = Len(fonts)
            /\ \A i \in 1..Len(fonts) :
                 /\ IsTrimmed(probe.stored.allowedFonts[i])
                 /\ probe.stored.allowedFonts[i] = trim(fonts[i].s)
            /\ \A f \in ExtendedFields :
                 IF f \in DOMAIN probe.kit.o
                 THEN f \in DOMAIN probe.stored /\ probe.stored[f] = probe.kit.o[f]
                 ELSE f \notin DOMAIN probe.stored

(***************************************************************************)
(* Properties of the colour utilities                                      *)
(***************************************************************************)
\* '#' and the digits in upper case
Canonical(digits) == <<"#">> \o toUpperCase(digits)

\* the codec as specified, white space around the input set aside: '#RGB',
\* '#RRGGBB', 'RRGGBB' and eight digits are accepted, anything else is invalid
Codec(input) ==
    LET t      == trim(input)
        hashed == t # <<>> /\ t[1] = "#"
        digits == IF hashed THEN Tail(t) ELSE t
    IN  IF digits = <<>> \/ \E i \in 1..Len(digits) : HexValOf[digits[i]] < 0
        THEN Null
        ELSE IF Len(digits) = 3 /\ hashed
        THEN Canonical(<<digits[1], digits[1], digits[2], digits[2],
                         digits[3], digits[3]>>)
        ELSE IF Len(digits) = 6 THEN Canonical(digits)
        ELSE IF Len(digits) = 8
        THEN IF \A i \in 1..6 : digits[i] = "0"
             THEN Canonical(SubSeq(digits, 3, 8))
             ELSE Canonical(SubSeq(digits, 1, 6))
        ELSE Null

\* C21: toHex6 agrees with the specified codec on every input: '#RGB',
\* '#RRGGBB', 'RRGGBB' and 8-digit input give the canonical 6-digit colour
\* (of 8 digits the trailing six when the leading six are all zero, else the
\* leading six); a non-hex character or any other length gives invalid.
C21_CodecAgrees ==
    probe.op = "normalize" => probe.color = Codec(probe.hex)

\* the canonical serialisation of a colour: '#' and six of [0-9A-F]
IsCanonical(c) ==
    /\ Len(c) = 7
    /\ c[1] = "#"
    /\ \A i \in 2..7 : \E d \in 1..16 : HexChars[d] = c[i]

C23_Thresholds ==
    probe.op = "contrast" =>
        LET o == probe.options
            r == probe.result
            relaxed == o.largeText \/ o.nonText
        IN  /\ r.requiredAA = IF relaxed THEN 3000 ELSE 4500
            /\ r.passesAA <=> r.ratio >= r.requiredAA
            /\ r.hasAAA <=> o.reportAAA
            /\ o.reportAAA =>
                  /\ r.requiredAAA = IF relaxed THEN 4500 ELSE 7000
                  /\ r.passesAAA <=> r.ratio >= r.requiredAAA

(***************************************************************************)
(* Properties of the fonts                                                 *)
(***************************************************************************)
\* C24: every font that brand-kit validation accepts can be used end to
\* end: when the SDK resolves the font, fixFont and restoreFont apply it to
\* a text node and return true, for each font of AVAILABLE_FONTS.
C24_EveryFontApplies ==
    ( /\ probe.op \in {"fixFont", "restoreFont"}
      /\ probe.sdkApplies
      /\ probe.fontFamily \in AVAILABLE_FONTS ) =>
        /\ probe.ok
        /\ probe.doc[2].font = probe.fontFamily

(***************************************************************************)
(* Properties of repeated fixing                                           *)
(***************************************************************************)
\* C25: with a fixed valid kit and every provider apply succeeding,
\* repeatedly auditing and applying the suggested fix to each listed
\* violation reaches, after finitely many rounds, an audit that lists no
\* violation: the rounds are finitely many exactly when no audit lists a
\* violation for a document whose listing was worked on before.
C25_RoundsEnd ==
    ( probe.op = "audit" /\ probe.violations # <<>> ) =>
        probe.doc \notin probe.seen

(***************************************************************************)
(* Properties of the audit listing                                         *)
(***************************************************************************)
\* el is a card of the listing
Listed(el) == \E v \in 1..Len(probe.violations) : probe.violations[v] = el

\* the fill of node n is the RGB of a colour of the kit
FillAllowed(n, kit) ==
    /\ n.fill # Null
    /\ \E c \in 1..Len(kit.allowedColors) : kit.allowedColors[c] = KitColor(n.fill)

\* C26: an element whose actual fill RGB equals an allowed colour is never
\* listed as a palette violation, for every allowed colour, #000000
\* included, the provider reporting each fill as 8-digit RGBA hex.
C26_AllowedFillNotListed ==
    probe.op = "audit" =>
        \A n \in 1..Len(probe.doc) :
            FillAllowed(probe.doc[n], probe.kit) =>
                ~( /\ Listed(probe.elements[n])
                   /\ CardColorViolation(probe.elements[n], probe.kit) )

\* el has a known fill and background, a fill of the palette, and fails
\* the contrast check
FailsContrastOnly(el, kit) ==
    /\ toHex6(el.fillColor) # Null
    /\ toHex6(el.containerFillColor) # Null
    /\ IsBrandCompliant(toHex6(el.fillColor), kit)
    /\ ~IsContrastCompliant(toHex6(el.fillColor), toHex6(el.containerFillColor),
                            el.type = "Text", kit)

\* C27: every element with known fill and background whose fill is
\* palette-compliant but fails the contrast check appears in the audit
\* result, in the violation list or in the unfixable findings.
C27_NotDropped ==
    probe.op = "audit" =>
        \A n \in 1..Len(probe.elements) :
            FailsContrastOnly(probe.elements[n], probe.kit) =>
                \/ Listed(probe.elements[n])
                \/ \E w \in 1..Len(probe.warnings) :
                      probe.warnings[w].element = probe.elements[n]

(***************************************************************************)
(* Properties of BrandKitManager                                           *)
(***************************************************************************)
\* the kit the stored active id identifies: its stored kit, the default
\* kit when the id is "default" or has no stored kit
ActiveKit ==
    IF probe.activeId # "default" /\ probe.activeId \in probe.stored
    THEN probe.activeId ELSE "default"

\* C28: after any interleaving of loadBrandKit, setActiveKit and
\* addBrandKit/uploadBrandKit calls, once every pending load has completed
\* the cached kit, and the kit handed to listeners, is the kit of the stored
\* active kit id: an earlier load never overwrites a later activation.
C28_CacheIsActiveKit ==
    ( probe.op = "manager" /\ probe.pending = <<>> ) =>
        /\ probe.cache # "none" => probe.cache = ActiveKit
        /\ probe.shown # "none" => probe.shown = ActiveKit

\* C30: when uploadBrandKit cannot persist a valid kit it returns the
\* 'storage' error and leaves the registry, the stored active kit id and
\* the cached kit as they were before the call.
C30_FailedUploadChangesNothing ==
    [][ ( probe.op = "manager" /\ probe'.uploads # probe.uploads
            /\ probe'.result # "valid" ) =>
          /\ probe'.result = "storage"
          /\ probe'.registry = probe.registry
          /\ probe'.activeId = probe.activeId
          /\ probe'.cache = probe.cache ]_vars

(***************************************************************************)
(* Properties of a single fix                                              *)
(***************************************************************************)
\* el breaks the font rule and no colour rule: it has no fill, or a fill of
\* the palette that passes the contrast check where the background is known
FontOnly(el, kit) ==
    /\ AuditFontViolation(el, kit)
    /\ \/ toHex6(el.fillColor) = Null
       \/ /\ IsBrandCompliant(toHex6(el.fillColor), kit)
          /\ \/ toHex6(el.containerFillColor) = Null
             \/ IsContrastCompliant(toHex6(el.fillColor),
                                    toHex6(el.containerFillColor),
                                    el.type = "Text", kit)

\* the colour step of handleFix has run for card i of the batch
ColorStep == probe.op = "color" /\ probe'.op = "font"

\* C29: handleFix applies a colour through the provider only to an element
\* with a palette or contrast violation: for an element whose only broken
\* rule is font membership, an element with no fill colour included, the
\* fill is left unchanged.
C29_FontOnlyKeepsFill ==
    [][ ( ColorStep /\ FontOnly(probe.batch[probe.i], probe.kit) ) =>
          \A n \in 1..Len(probe.doc) :
              probe.doc[n].id = probe.batch[probe.i].id =>
                  probe'.doc[n].fill = probe.doc[n].fill ]_vars

====
